---- MODULE Spec2Model ----
(***************************************************************************)
(* Backend request pipeline of agent-webapp: express-validator chains,     *)
(* validateRequest, authenticateJWT, authorize, the auth and item route    *)
(* handlers and the errorHandler, over the user and item collections.      *)
(*                                                                         *)
(* A request occupies a slot and moves through the middleware chain of its *)
(* route one stage at a time; stages of different requests interleave at   *)
(* the points where the code awaits the document store.                    *)
(***************************************************************************)
EXTENDS Integers, Sequences, FiniteSets, TLC

\* ------------------------------------------------------------------ bounds
MaxReq == 2          \* request slots in flight at once
MaxTime == 3         \* clock ticks observed
MaxHeaderLen == 3    \* pieces of an Authorization header value
MaxTokens == 1       \* tokens issued by login that clients keep
MaxItems == 1        \* item documents in the store
MaxIds == 2          \* document ids handed out before item creation stops
MaxStock == 3        \* item documents in a store that is searched

\* ------------------------------------------------------- program constants
UsernameMin == 3
UsernameMax == 30
PasswordMin == 6
TitleMax == 100
ExpiresIn == 2       \* config.jwt.expiresIn (24h by default), in clock ticks of 12h
LimitMax == 50       \* isInt({min: 1, max: 50}) of the search limit
DefaultLimit == 10   \* parseInt(req.query.limit) || 10

Secret == "server-secret"
DefaultSecret == "your-super-secret-key-change-in-production"
Roles == {"user", "admin"}

\* ------------------------------------------------------------------ state
VARIABLES
    users,         \* the User collection
    items,         \* the Item collection
    nextId,        \* next document id the store hands out
    reqs,          \* request slot -> the request being served in it
    now,           \* the clock
    tokens,        \* tokens issued by login that clients still hold
    nodeEnv,       \* process.env.NODE_ENV
    jwtSecretEnv,  \* process.env.JWT_SECRET
    phase,         \* where the server process is: starting, connected, listening, exited
    client         \* the browser client: auth state, localStorage, call in flight

\* the server process: its environment and where it is in its start-up
proc == <<nodeEnv, jwtSecretEnv, phase>>

vars == <<users, items, nextId, reqs, now, tokens, proc, client>>

\* ------------------------------------------------------------------- text
\* A string is its non-blank core (named, with its length) and the number of
\* blank characters around it.
Txt(core, len, pad) == [core |-> core, len |-> len, pad |-> pad]

Length(t) == t.len + t.pad

\* String.prototype.trim as used by the .trim() sanitizer
Trim(t) == [t EXCEPT !.pad = 0]

\* validator.js isEmpty / isLength
IsEmpty(t) == Length(t) = 0
IsLengthMin(t, min) == Length(t) >= min
IsLengthMax(t, max) == Length(t) <= max

Entry(field, message) == [field |-> field, message |-> message]
When(cond, e) == IF cond THEN <<e>> ELSE <<>>

\* Option values: <<>> is undefined/null, <<v>> is v.
Some(v) == <<v>>
None == <<>>
IsSome(o) == o /= <<>>
Get(o) == o[1]

\* ------------------------------------------------- Authorization header
\* A header value is a sequence of pieces: a blank, a word, or a JWT string.
SP == [kind |-> "sp"]
Word(w) == [kind |-> "word", w |-> w]
Bearer == Word("Bearer")
Basic == Word("Basic")

\* String.prototype.split(' '): the pieces between blanks; n blanks give
\* n + 1 parts, empty parts included.
RECURSIVE Split(_)
Split(h) ==
    IF h = <<>> THEN << <<>> >>
    ELSE LET rest == Split(Tail(h)) IN
         IF Head(h) = SP THEN << <<>> >> \o rest
         ELSE << <<Head(h)>> \o rest[1] >> \o Tail(rest)

\* ------------------------------------------------------------- item paths
\* A path segment below /api/items: a 24-digit hex string, which names the
\* document id n, or another word.
Oid(n) == [kind |-> "oid", id |-> n]
Search == Word("search")

\* validator.js isMongoId
IsMongoId(seg) == seg.kind = "oid"

\* ----------------------------------------------------------- query values
\* A query-string value: the decimal digits of n, or a word.
Digits(n) == [kind |-> "digits", n |-> n]

\* validator.js isInt({min, max}) and isInt({min})
IsInt(v, min, max) == v.kind = "digits" /\ v.n >= min /\ v.n <= max
IsIntMin(v, min) == v.kind = "digits" /\ v.n >= min

\* parseInt(value) || fallback: NaN (no value, or no digits) and 0 are falsy
ParseIntOr(o, fallback) ==
    IF o /= <<>> /\ o[1].kind = "digits" /\ o[1].n /= 0 THEN o[1].n
    ELSE fallback

\* Math.ceil(a / b) for b > 0
Ceil(a, b) == (a + b - 1) \div b

\* ------------------------------------------------------------------- JWT
\* jwt.sign(payload, secret, {expiresIn}): the payload plus iat and exp,
\* signed with the key.
JwtSign(payload, key, expiresIn, t) ==
    [kind |-> "jwt", key |-> key, id |-> payload.id,
     username |-> payload.username, role |-> payload.role,
     iat |-> t, exp |-> t + expiresIn]

Claims(tok) ==
    [id |-> tok.id, username |-> tok.username, role |-> tok.role,
     iat |-> tok.iat, exp |-> tok.exp]

\* jwt.verify(token, secret): the decoded claims, or the name of the error
\* thrown. The string must be one JWT; the signature is checked before exp.
JwtVerify(part, key, t) ==
    IF Len(part) /= 1 \/ part[1].kind /= "jwt"
    THEN [ok |-> FALSE, name |-> "JsonWebTokenError", decoded |-> None]
    ELSE IF part[1].key /= key
    THEN [ok |-> FALSE, name |-> "JsonWebTokenError", decoded |-> None]
    ELSE IF t >= part[1].exp
    THEN [ok |-> FALSE, name |-> "TokenExpiredError", decoded |-> None]
    ELSE [ok |-> TRUE, name |-> "", decoded |-> Some(Claims(part[1]))]

\* a value the || operator takes: defined and not the empty string
Truthy(o) == o /= <<>> /\ o /= <<"">>

\* config.jwt.secret: process.env.JWT_SECRET || the built-in default
JwtSecret == IF Truthy(jwtSecretEnv) THEN jwtSecretEnv[1] ELSE DefaultSecret

\* generateToken(payload)
GenerateToken(payload, t) == JwtSign(payload, JwtSecret, ExpiresIn, t)

\* ----------------------------------------------------------------- errors
\* new ApiError(statusCode, message, code = 'INTERNAL_ERROR')
ApiError(statusCode, message, code) ==
    [name |-> "ApiError", statusCode |-> statusCode, message |-> message,
     code |-> code]
ApiError500(message) == ApiError(500, message, "INTERNAL_ERROR")

\* Errors that are not ApiErrors: a Mongoose validation error (its errors
\* listed by path), and plain Errors with and without a message.
StoreValidationError ==
    [name |-> "ValidationError", message |-> "Item validation failed",
     errors |-> <<[path |-> "title", message |-> "Path title is required."],
                  [path |-> "content",
                   message |-> "Path content is required."]>>]
PlainError == [name |-> "Error", message |-> "connect ECONNREFUSED"]
NoMessageError == [name |-> "Error", message |-> ""]

\* err.statusCode || 500
LoggedStatus(e) == IF "statusCode" \in DOMAIN e THEN e.statusCode ELSE 500

\* A response as sent: who wrote it, the status, and the JSON body fields.
Response(by, status, success, code, message, details, token, data) ==
    [by |-> by, status |-> status, success |-> success, code |-> code,
     message |-> message, details |-> details, token |-> token, data |-> data]

ErrorResponse(by, status, code, message, details) ==
    Response(by, status, FALSE, code, message, details, None, None)

\* ------------------------------------------------------------ collections
\* bcrypt hash of a password and User.comparePassword
Hash(p) == [hash |-> p]
ComparePassword(candidate, stored) == Hash(candidate) = stored

\* User.findOne({username}) / User.findById(id): the matching documents
FindByUsername(us, name) == {u \in us : u.username = name}
FindById(us, id) == {u \in us : u.id = id}

\* User.create: the unique index on username rejects a second document with
\* the same username; the schema asks for a username of 3 to 30 characters
\* and a password.
UserCreateThrows(us, username, password) ==
    \/ FindByUsername(us, username) /= {}
    \/ ~IsLengthMin(username, UsernameMin)
    \/ ~IsLengthMax(username, UsernameMax)
    \/ IsEmpty(password)

UserDoc(id, username, password, t) ==
    [id |-> id, username |-> username, password |-> Hash(password),
     role |-> "user", createdAt |-> t]

\* Item schema: title required, trimmed, at most 100 characters; content
\* required, trimmed; user optional.
ItemCreateThrows(title, content) ==
    \/ IsEmpty(Trim(title))
    \/ ~IsLengthMax(Trim(title), TitleMax)
    \/ IsEmpty(Trim(content))

ItemDoc(id, title, content, user, t) ==
    [id |-> id, title |-> Trim(title), content |-> Trim(content),
     user |-> user, createdAt |-> t, updatedAt |-> t]

\* Item.findById(id): the matching documents
FindItemAny(its, id) == its
FindItem(its, id) == {i \in its : i.id = id}

\* Item.find().sort({createdAt: -1}): the documents newest first; documents
\* with the same createdAt come in either order.
NewestFirst(its) ==
    {o \in [1..Cardinality(its) -> its] :
        /\ \A i, j \in DOMAIN o : i /= j => o[i] /= o[j]
        /\ \A i, j \in DOMAIN o : i < j => o[i].createdAt >= o[j].createdAt}

\* ------------------------------------------------------ validation chains
Blank == Txt("", 0, 0)

\* a body field that is not sent at all (undefined)
Missing == [core |-> "", len |-> 0, pad |-> 0, missing |-> TRUE]
IsMissing(t) == "missing" \in DOMAIN t
EmptyBody == [username |-> Blank, password |-> Blank, title |-> Blank,
              content |-> Blank]

\* the custom validator: User.findOne({username: value}) finds a user
UsernameTakenNever(us, u) == FALSE
UsernameTaken(us, u) == FindByUsername(us, u) /= {}

\* body('username').trim().notEmpty().isLength({min: 3, max: 30}).custom(...)
\* body('password').trim().notEmpty().isLength({min: 6})
RegisterChains(body, us) ==
    LET u == Trim(body.username)
        p == Trim(body.password)
    IN [body |-> [body EXCEPT !.username = u, !.password = p],
        errs |->
          When(IsEmpty(u), Entry("username", "Username is required"))
          \o When(~(IsLengthMin(u, UsernameMin) /\ IsLengthMax(u, UsernameMax)),
                   Entry("username", "Username must be between 3 and 30 characters"))
          \o When(UsernameTaken(us, u),
                   Entry("username", "Username already exists"))
          \o When(IsEmpty(p), Entry("password", "Password is required"))
          \o When(~IsLengthMin(p, PasswordMin),
                   Entry("password", "Password must be at least 6 characters"))]

\* body('username').trim().notEmpty(); body('password').trim().notEmpty()
LoginChains(body) ==
    LET u == Trim(body.username)
        p == Trim(body.password)
    IN [body |-> [body EXCEPT !.username = u, !.password = p],
        errs |->
          When(IsEmpty(u), Entry("username", "Username is required"))
          \o When(IsEmpty(p), Entry("password", "Password is required"))]

\* body('title').trim().notEmpty().isLength({max: 100})
\* body('content').trim().notEmpty()
CreateItemChains(body) ==
    LET t == Trim(body.title)
        c == Trim(body.content)
    IN [body |-> [body EXCEPT !.title = t, !.content = c],
        errs |->
          When(IsEmpty(t), Entry("title", "Title is required"))
          \o When(~IsLengthMax(t, TitleMax),
                   Entry("title", "Title cannot exceed 100 characters"))
          \o When(IsEmpty(c), Entry("content", "Content is required"))]

\* param('id').isMongoId()
IdErrors(path) ==
    When(~IsMongoId(path[1]), Entry("id", "Invalid item ID"))

\* GET /:id and DELETE /:id: param('id').isMongoId()
IdChains(body, path) == [body |-> body, errs |-> IdErrors(path)]

\* PUT /:id: param('id').isMongoId(),
\* body('title').optional().trim().notEmpty().isLength({max: 100}),
\* body('content').optional().trim().notEmpty()
UpdateItemChains(body, path) ==
    LET t == Trim(body.title)
        c == Trim(body.content)
    IN [body |-> [body EXCEPT !.title = t, !.content = c],
        errs |->
          IdErrors(path)
          \o When(~IsMissing(t) /\ IsEmpty(t),
                   Entry("title", "Title cannot be empty"))
          \o When(~IsMissing(t) /\ ~IsLengthMax(t, TitleMax),
                   Entry("title", "Title cannot exceed 100 characters"))
          \o When(~IsMissing(c) /\ IsEmpty(c),
                   Entry("content", "Content cannot be empty"))]

\* GET /search: query('q').optional().isString(),
\* query('page').optional().isInt({min: 1}),
\* query('limit').optional().isInt({min: 1, max: 50})
SearchChains(body, query) ==
    [body |-> body,
     errs |->
       When(query.page /= <<>> /\ ~IsIntMin(query.page[1], 1),
            Entry("page", "Page must be a positive integer"))
       \o When(query.limit /= <<>> /\ ~IsInt(query.limit[1], 1, LimitMax),
                Entry("limit", "Limit must be between 1 and 50"))]

\* ---------------------------------------------------------- request slots
Slots == 1..MaxReq

\* req.originalUrl: the mount point and the path segments below it
Url(base, path) == [base |-> base, path |-> path]

\* req.query of a search: q, page and limit, each optional
NoQuery == [q |-> None, page |-> None, limit |-> None]

Idle ==
    [route |-> "none", pc |-> "idle", method |-> "", url |-> Url("", <<>>),
     query |-> NoQuery, hdr |-> None, sent |-> EmptyBody, body |-> EmptyBody,
     roles |-> {}, user |-> None, errs |-> <<>>, err |-> None, log |-> None,
     found |-> <<>>, resp |-> None, ran |-> FALSE, verified |-> FALSE,
     acts |-> <<>>]

\* the auth state of a client that starts with an empty localStorage
InitialAuthState ==
    [user |-> None, token |-> None, isAuthenticated |-> FALSE,
     isLoading |-> FALSE, error |-> None]

\* the Items page as it is first rendered: useState([]), useState(true),
\* useState(null), and no request of its own under way
InitialPage ==
    [items |-> <<>>, loading |-> TRUE, error |-> None, calls |-> {}]

\* App as it mounts in a window whose localStorage is empty:
\* useState(window.location.pathname), useState(!!getItem('auth_token'))
InitialApp == [currentPath |-> "/", isAuthenticated |-> FALSE]

InitialClient ==
    [state |-> InitialAuthState, storage |-> None, call |-> None,
     resolved |-> "none", last |-> None, page |-> InitialPage,
     app |-> InitialApp]

\* The store is empty, no request is in flight, the clock is at 0.
InitStore ==
    /\ users = {}
    /\ items = {}
    /\ nextId = 1
    /\ reqs = [r \in Slots |-> Idle]
    /\ now = 0
    /\ tokens = {}
    /\ nodeEnv \in {"development", "production"}
    /\ client = InitialClient

\* The server is up, started with JWT_SECRET set.
Init ==
    /\ InitStore
    /\ jwtSecretEnv = Some(Secret)
    /\ phase = "listening"

\* The values NODE_ENV is started with.
Environments == {"development", "production", "test"}

\* The server is up, in any of the environments.
InitEnv ==
    /\ users = {}
    /\ items = {}
    /\ nextId = 1
    /\ reqs = [r \in Slots |-> Idle]
    /\ now = 0
    /\ tokens = {}
    /\ nodeEnv \in Environments
    /\ client = InitialClient
    /\ jwtSecretEnv = Some(Secret)
    /\ phase = "listening"

\* The process has just been launched, with JWT_SECRET unset, empty or set.
InitBoot ==
    /\ InitStore
    /\ jwtSecretEnv \in {None, Some(""), Some(Secret)}
    /\ phase = "starting"

\* ---------------------------------------------------------------- start-up
\* connectToDatabase(), skipped when config.env is 'test': mongoose.connect
\* succeeds, or it fails and the process exits with code 1.
ConnectToDatabase ==
    /\ phase = "starting"
    /\ nodeEnv /= "test"
    /\ phase' \in {"connected", "exited"}
    /\ UNCHANGED <<users, items, nextId, reqs, now, tokens, nodeEnv,
                   jwtSecretEnv, client>>

\* server.listen(PORT)
Listen ==
    /\ phase = (IF nodeEnv = "test" THEN "starting" ELSE "connected")
    /\ phase' = "listening"
    /\ UNCHANGED <<users, items, nextId, reqs, now, tokens, nodeEnv,
                   jwtSecretEnv, client>>

\* ------------------------------------------------------- middleware steps
\* Each takes the request (and what it reads) and gives the request after
\* the middleware has run.

\* The terminal actions taken on a request, each with the stage that took
\* it: "send" for res.json, "next" for next(), "error" for next(err).
Act(req, act) ==
    [req EXCEPT !.acts = Append(@, [stage |-> req.pc, act |-> act])]

\* next(err): control goes to the errorHandler
ForwardAnswersItself(req, e) ==
    [req EXCEPT !.pc = "done",
                !.resp = Some(ErrorResponse("handler", e.statusCode, e.code,
                                            e.message, <<>>))]

Forward(req, e) == [Act(req, "error") EXCEPT !.pc = "error", !.err = Some(e)]

\* res.status(..).json(..): the response is sent
Send(req, resp) == [Act(req, "send") EXCEPT !.pc = "done", !.resp = Some(resp)]

\* next(): control goes to the next function of the route
Pass(req) == [Act(req, "next") EXCEPT !.pc = "handler"]

\* validateRequest
ValidateRequestSendsAndContinues(req) ==
    IF req.errs /= <<>>
    THEN Pass([Send(req, ErrorResponse("validateRequest", 400,
                    "VALIDATION_ERROR", "Validation failed", req.errs))
               EXCEPT !.pc = req.pc])
    ELSE Pass(req)

ValidateRequestFirstOnly(req) ==
    IF req.errs /= <<>>
    THEN Send(req, ErrorResponse("validateRequest", 400, "VALIDATION_ERROR",
                                 "Validation failed", <<Head(req.errs)>>))
    ELSE Pass(req)

ValidateRequestMw(req) ==
    IF req.errs /= <<>>
    THEN Send(req, ErrorResponse("validateRequest", 400, "VALIDATION_ERROR",
                                 "Validation failed", req.errs))
    ELSE Pass(req)

\* !authHeader: the header is undefined, or the empty string
MissingHeader(hdr) == hdr = None \/ hdr = Some(<<>>)

\* parts.length !== 2 || parts[0] !== 'Bearer'
BadFormatLengthOnly(parts) == Len(parts) /= 2
BadFormat(parts) == Len(parts) /= 2 \/ parts[1] /= <<Bearer>>

AuthRequiredAsForbidden ==
    ApiError(403, "Authentication required", "AUTH_REQUIRED")
AuthRequired == ApiError(401, "Authentication required", "AUTH_REQUIRED")

\* the catch block: the error forwarded for a failed jwt.verify
VerifyErrorAlwaysInvalid(name) == ApiError(401, "Invalid token", "INVALID_TOKEN")
VerifyError(name) ==
    IF name = "TokenExpiredError"
    THEN ApiError(401, "Token has expired", "TOKEN_EXPIRED")
    ELSE ApiError(401, "Invalid token", "INVALID_TOKEN")

\* req.user = decoded; next()
AttachForgotten(req, decoded) == Pass([req EXCEPT !.verified = TRUE])
Attach(req, decoded) ==
    Pass([req EXCEPT !.user = decoded, !.verified = TRUE])

\* authenticateJWT
AuthenticateJWTMw(req, t) ==
    IF MissingHeader(req.hdr)
    THEN Forward(req, AuthRequired)
    ELSE LET parts == Split(Get(req.hdr)) IN
         IF BadFormat(parts)
         THEN Forward(req, ApiError(401,
                  "Invalid authorization format. Use: Bearer <token>",
                  "INVALID_AUTH_FORMAT"))
         ELSE LET v == JwtVerify(parts[2], JwtSecret, t) IN
              IF v.ok
              THEN Attach(req, v.decoded)
              ELSE Forward([req EXCEPT !.verified = TRUE], VerifyError(v.name))

\* authorize(...roles)
AuthorizeNoRoleCheck(req) ==
    IF req.user = None
    THEN Forward(req, ApiError(401, "User not authenticated", "AUTH_REQUIRED"))
    ELSE Pass(req)

AuthorizeMw(req) ==
    IF req.user = None
    THEN Forward(req, ApiError(401, "User not authenticated", "AUTH_REQUIRED"))
    ELSE IF Get(req.user).role \notin req.roles
    THEN Forward(req, ApiError(403, "Insufficient permissions",
                               "INSUFFICIENT_PERMISSIONS"))
    ELSE Pass(req)

\* notFoundHandler
NotFoundMw(req) == Forward(req, ApiError(404, "Route not found", "NOT_FOUND"))

\* logger.error(..., {url, method, stack, statusCode: err.statusCode || 500})
LogError(req, e) ==
    [req EXCEPT !.log = Some([level |-> "error", url |-> req.url,
                              method |-> req.method, stack |-> e.name,
                              statusCode |-> LoggedStatus(e)])]

\* Object.values(err.errors).map(e => ({field: e.path, message: e.message}))
DetailsDropped(errors) == <<>>
Details(errors) ==
    [i \in 1..Len(errors) |-> Entry(errors[i].path, errors[i].message)]

\* err.message || 'Internal Server Error'
RawOnly(message) == message
RawOrFallback(message) ==
    IF message /= "" THEN message ELSE "Internal Server Error"

\* errorHandler: log the error, then answer by its kind
ErrorHandlerMw(req, env) ==
    LET e == Get(req.err)
        logged == LogError(req, e)
    IN IF e.name = "ApiError"
       THEN Send(logged, ErrorResponse("errorHandler", e.statusCode, e.code,
                                       e.message, <<>>))
       ELSE IF e.name = "ValidationError"
       THEN Send(logged, ErrorResponse("errorHandler", 400, "VALIDATION_ERROR",
                                       "Validation failed", Details(e.errors)))
       ELSE Send(logged, ErrorResponse("errorHandler", 500, "INTERNAL_ERROR",
                     IF env = "production" THEN "An unexpected error occurred"
                     ELSE RawOrFallback(e.message), <<>>))

\* -------------------------------------------------------------- arrivals
\* the method and URL of the requests of each route
MethodOf(route) ==
    IF route \in {"register", "login", "createItem"} THEN "POST" ELSE "GET"

UrlOf(route) ==
    IF route \in {"register", "login", "me"} THEN Url("/api/auth", <<Word(route)>>)
    ELSE IF route = "createItem" THEN Url("/api/items", <<>>)
    ELSE Url("/api", <<Word(route)>>)

NewReq(route, pc, hdr, body, roles, user) ==
    [Idle EXCEPT !.route = route, !.pc = pc, !.method = MethodOf(route),
                 !.url = UrlOf(route), !.hdr = hdr, !.sent = body,
                 !.body = body, !.roles = roles, !.user = user]

Set(r, req) == reqs' = [reqs EXCEPT ![r] = req]

InFlight(route) == Cardinality({r \in Slots : reqs[r].route = route})

\* POST /api/auth/register {username, password}
ArriveRegister(r, U, P) ==
    /\ phase = "listening"
    /\ reqs[r].pc = "idle"
    /\ \E u \in U, p \in P :
          Set(r, NewReq("register", "validate", None,
                        [EmptyBody EXCEPT !.username = u, !.password = p],
                        {}, None))
    /\ UNCHANGED <<users, items, nextId, now, tokens, proc, client>>

\* POST /api/auth/login {username, password}
ArriveLogin(r, U, P) ==
    /\ phase = "listening"
    /\ reqs[r].pc = "idle"
    /\ \E u \in U, p \in P :
          Set(r, NewReq("login", "validate", None,
                        [EmptyBody EXCEPT !.username = u, !.password = p],
                        {}, None))
    /\ UNCHANGED <<users, items, nextId, now, tokens, proc, client>>

\* POST /api/items {title, content}
ArriveCreateItem(r, T, C) ==
    /\ phase = "listening"
    /\ reqs[r].pc = "idle"
    /\ Cardinality(items) + InFlight("createItem") < MaxItems
    /\ \E t \in T, c \in C :
          Set(r, NewReq("createItem", "validate", None,
                        [EmptyBody EXCEPT !.title = t, !.content = c],
                        {}, None))
    /\ UNCHANGED <<users, items, nextId, now, tokens, proc, client>>

\* A JWT string a client can present: one it was issued, or one with the same
\* claims signed with another key.
Presentable == tokens \cup {[t EXCEPT !.key = "forged"] : t \in tokens}

HeaderPieces == {SP, Bearer, Basic} \cup Presentable

Headers ==
    {None} \cup
    {Some(h) : h \in UNION {[1..n -> HeaderPieces] : n \in 0..MaxHeaderLen}}

\* POST /api/items {title, content}, anonymous or with Authorization:
\* Bearer <a token the client was issued>
ArriveCreateItemBearing(r, T, C) ==
    /\ phase = "listening"
    /\ reqs[r].pc = "idle"
    /\ Cardinality(items) + InFlight("createItem") < MaxItems
    /\ \E t \in T, c \in C,
          h \in {None} \cup {Some(<<Bearer, SP, tok>>) : tok \in tokens} :
          Set(r, NewReq("createItem", "validate", h,
                        [EmptyBody EXCEPT !.title = t, !.content = c],
                        {}, None))
    /\ UNCHANGED <<users, items, nextId, now, tokens, proc, client>>

\* GET /api/auth/me, with or without an Authorization header
ArriveMe(r, H) ==
    /\ phase = "listening"
    /\ reqs[r].pc = "idle"
    /\ \E h \in H :
          Set(r, NewReq("me", "auth", h, EmptyBody, {}, None))
    /\ UNCHANGED <<users, items, nextId, now, tokens, proc, client>>

\* A request reaching a route gated by authorize(...roles), with the identity
\* an earlier stage left on it, if any.
Identities ==
    {None} \cup
    {Some([id |-> 1, username |-> Txt("bob", 3, 0), role |-> ro, iat |-> 0,
           exp |-> ExpiresIn]) : ro \in Roles}

ArriveGated(r) ==
    /\ phase = "listening"
    /\ reqs[r].pc = "idle"
    /\ \E R \in SUBSET Roles, u \in Identities :
          Set(r, NewReq("gated", "authz", None, EmptyBody, R, u))
    /\ UNCHANGED <<users, items, nextId, now, tokens, proc, client>>

\* A request under /api that matches no route
ArriveUnknown(r) ==
    /\ phase = "listening"
    /\ reqs[r].pc = "idle"
    /\ Set(r, NewReq("unknown", "notfound", None, EmptyBody, {}, None))
    /\ UNCHANGED <<users, items, nextId, now, tokens, proc, client>>

\* A POST whose body is not JSON: express.json() forwards the parse error
\* and no route is reached.
ParseError ==
    [name |-> "SyntaxError", statusCode |-> 400,
     message |-> "Unexpected token in JSON", code |-> ""]

ArriveMalformed(r) ==
    /\ phase = "listening"
    /\ reqs[r].pc = "idle"
    /\ \E route \in {"register", "login", "createItem"} :
          Set(r, Forward(NewReq(route, "parse", None, EmptyBody, {}, None),
                         ParseError))
    /\ UNCHANGED <<users, items, nextId, now, tokens, proc, client>>

\* A request on which a middleware or handler fails with an error that is
\* not an ApiError and forwards it as it is.
Failures == {StoreValidationError, PlainError, NoMessageError}

ArriveFailing(r) ==
    /\ phase = "listening"
    /\ reqs[r].pc = "idle"
    /\ \E e \in Failures :
          Set(r, Forward(NewReq("failing", "handler", None, EmptyBody, {}, None),
                         e))
    /\ UNCHANGED <<users, items, nextId, now, tokens, proc, client>>

\* ------------------------------------------------------- pipeline stages
\* The validation chains of the route: sanitize the body, collect the errors.
RunValidators(r) ==
    LET req == reqs[r]
        out == IF req.route = "register" THEN RegisterChains(req.body, users)
               ELSE IF req.route = "login" THEN LoginChains(req.body)
               ELSE IF req.route \in {"getItem", "deleteItem"}
               THEN IdChains(req.body, req.url.path)
               ELSE IF req.route = "updateItem"
               THEN UpdateItemChains(req.body, req.url.path)
               ELSE IF req.route = "search"
               THEN SearchChains(req.body, req.query)
               ELSE CreateItemChains(req.body)
    IN /\ req.pc = "validate"
       /\ Set(r, [req EXCEPT !.body = out.body, !.errs = out.errs,
                              !.pc = "check"])
       /\ UNCHANGED <<users, items, nextId, now, tokens, proc, client>>

ValidateRequest(r) ==
    /\ reqs[r].pc = "check"
    /\ Set(r, ValidateRequestMw(reqs[r]))
    /\ UNCHANGED <<users, items, nextId, now, tokens, proc, client>>

AuthenticateJWT(r) ==
    /\ reqs[r].pc = "auth"
    /\ Set(r, AuthenticateJWTMw(reqs[r], now))
    /\ UNCHANGED <<users, items, nextId, now, tokens, proc, client>>

Authorize(r) ==
    /\ reqs[r].pc = "authz"
    /\ Set(r, AuthorizeMw(reqs[r]))
    /\ UNCHANGED <<users, items, nextId, now, tokens, proc, client>>

NotFoundHandler(r) ==
    /\ reqs[r].pc = "notfound"
    /\ Set(r, NotFoundMw(reqs[r]))
    /\ UNCHANGED <<users, items, nextId, now, tokens, proc, client>>

ErrorHandler(r) ==
    /\ reqs[r].pc = "error"
    /\ Set(r, ErrorHandlerMw(reqs[r], nodeEnv))
    /\ UNCHANGED <<users, items, nextId, now, tokens, proc, client>>

\* --------------------------------------------------------- route handlers
Ran(req) == [req EXCEPT !.ran = TRUE]

\* POST /register handler
RegisterHandler(r) ==
    LET req == Ran(reqs[r])
        b == req.body
    IN /\ reqs[r].pc = "handler" /\ reqs[r].route = "register"
       /\ IF UserCreateThrows(users, b.username, b.password)
          THEN /\ Set(r, Forward(req, ApiError500("Error registering user")))
               /\ UNCHANGED <<users, nextId>>
          ELSE LET user == UserDoc(nextId, b.username, b.password, now) IN
               /\ users' = users \cup {user}
               /\ nextId' = nextId + 1
               /\ Set(r, Send(req, Response("handler", 201, TRUE, "",
                      "User registered successfully", <<>>, None,
                      Some([id |-> user.id, username |-> user.username,
                            role |-> user.role,
                            createdAt |-> user.createdAt]))))
       /\ UNCHANGED <<items, now, tokens, proc, client>>

\* The client keeps the token it was issued, in place of an older one when it
\* holds MaxTokens already.
Kept(tok) ==
    IF tok \in tokens \/ Cardinality(tokens) < MaxTokens
    THEN {tokens \cup {tok}}
    ELSE {(tokens \ {old}) \cup {tok} : old \in tokens}

\* the error for !user and the error for !isPasswordValid
UnknownUserAsNotFound == ApiError(404, "User not found", "USER_NOT_FOUND")
UnknownUser ==
    ApiError(401, "Invalid username or password", "INVALID_CREDENTIALS")
WrongPassword ==
    ApiError(401, "Invalid username or password", "INVALID_CREDENTIALS")

\* POST /login handler
LoginHandler(r) ==
    LET req == Ran(reqs[r])
        b == req.body
        found == FindByUsername(users, b.username)
    IN /\ reqs[r].pc = "handler" /\ reqs[r].route = "login"
       /\ IF found = {}
          THEN Set(r, Forward(req, UnknownUser)) /\ UNCHANGED tokens
          ELSE LET user == CHOOSE u \in found : TRUE IN
               IF ~ComparePassword(b.password, user.password)
               THEN Set(r, Forward(req, WrongPassword)) /\ UNCHANGED tokens
               ELSE LET ident == [id |-> user.id, username |-> user.username,
                                  role |-> user.role]
                        tok == GenerateToken(ident, now)
                    IN /\ Set(r, Send(req, Response("handler", 200, TRUE, "",
                              "Login successful", <<>>, Some(tok), Some(ident))))
                       /\ tokens' \in Kept(tok)
       /\ UNCHANGED <<users, items, nextId, now, proc, client>>

\* the error for a token whose user is not found
UserGoneAsUnauthorized == ApiError(401, "Invalid token", "INVALID_TOKEN")
UserGone == ApiError(404, "User not found", "USER_NOT_FOUND")

\* GET /me handler
MeHandler(r) ==
    LET req == Ran(reqs[r])
        found == FindById(users, Get(req.user).id)
    IN /\ reqs[r].pc = "handler" /\ reqs[r].route = "me"
       /\ IF found = {}
          THEN Set(r, Forward(req, UserGone))
          ELSE LET user == CHOOSE u \in found : TRUE IN
               Set(r, Send(req, Response("handler", 200, TRUE, "", "", <<>>,
                      None,
                      Some([id |-> user.id, username |-> user.username,
                            role |-> user.role,
                            createdAt |-> user.createdAt]))))
       /\ UNCHANGED <<users, items, nextId, now, tokens, proc, client>>

\* POST /items handler
CreateItemHandler(r) ==
    LET req == Ran(reqs[r])
        b == req.body
        owner == IF req.user /= None THEN Some(Get(req.user).id) ELSE None
    IN /\ reqs[r].pc = "handler" /\ reqs[r].route = "createItem"
       /\ IF ItemCreateThrows(b.title, b.content)
          THEN /\ Set(r, Forward(req, ApiError500("Error creating item")))
               /\ UNCHANGED <<items, nextId>>
          ELSE LET item == ItemDoc(nextId, b.title, b.content, owner, now) IN
               /\ items' = items \cup {item}
               /\ nextId' = nextId + 1
               /\ Set(r, Send(req, Response("handler", 201, TRUE, "",
                      "Item created successfully", <<>>, None, Some(item))))
       /\ UNCHANGED <<users, now, tokens, proc, client>>

\* ------------------------------------------------------------ item routes
\* The routes of the item router in the order they are registered.
Route(method, pattern, route) ==
    [method |-> method, pattern |-> pattern, route |-> route]

ItemRoutes ==
    << Route("GET", "/", "listItems"), Route("GET", "/:id", "getItem"),
       Route("POST", "/", "createItem"), Route("PUT", "/:id", "updateItem"),
       Route("DELETE", "/:id", "deleteItem"),
       Route("GET", "/search", "search") >>

\* path-to-regexp: '/' matches the bare mount point, '/:id' any single
\* segment, '/search' the segment search.
Matches(pattern, path) ==
    IF pattern = "/" THEN path = <<>>
    ELSE IF pattern = "/:id" THEN Len(path) = 1
    ELSE path = <<Search>>

\* Express hands the request to the first route registered whose method and
\* path match; with none the request falls through to the notFoundHandler.
Dispatch(method, path) ==
    LET hits == {i \in 1..Len(ItemRoutes) :
                    /\ ItemRoutes[i].method = method
                    /\ Matches(ItemRoutes[i].pattern, path)}
    IN IF hits = {} THEN "unknown"
       ELSE ItemRoutes[CHOOSE i \in hits : \A j \in hits : i <= j].route

\* the first stage of each route
FirstStage(route) ==
    IF route = "unknown" THEN "notfound"
    ELSE IF route = "listItems" THEN "handler"
    ELSE "validate"

\* A request to /api/items: a method, the path below the mount point, and
\* for POST and PUT a body, for GET a query string.
ArriveItems(r, M, P, T, C, Q) ==
    /\ phase = "listening"
    /\ reqs[r].pc = "idle"
    /\ \E m \in M, p \in P, t \in T, c \in C, q \in Q :
          LET route == Dispatch(m, p) IN
          /\ m \notin {"POST", "PUT"} => (t = Missing /\ c = Missing)
          /\ m /= "GET" => q = NoQuery
          /\ route = "createItem" =>
                /\ Cardinality(items) + InFlight("createItem") < MaxItems
                /\ nextId + InFlight("createItem") <= MaxIds
          /\ Set(r, [NewReq(route, FirstStage(route), None,
                             [EmptyBody EXCEPT !.title = t, !.content = c],
                             {}, None)
                        EXCEPT !.method = m, !.url = Url("/api/items", p),
                               !.query = q])
    /\ UNCHANGED <<users, items, nextId, now, tokens, proc, client>>

\* the error for an id that matches no item
ItemNotFoundAsInternal == ApiError500("Error retrieving item")
ItemNotFound == ApiError(404, "Item not found", "ITEM_NOT_FOUND")

\* GET / handler
ListItemsHandler(r) ==
    LET req == Ran(reqs[r]) IN
    /\ reqs[r].pc = "handler" /\ reqs[r].route = "listItems"
    /\ \E o \in NewestFirst(items) :
          Set(r, Send(req, Response("handler", 200, TRUE, "", "", <<>>, None,
                                    Some(o))))
    /\ UNCHANGED <<users, items, nextId, now, tokens, proc, client>>

\* GET /:id handler
GetItemHandler(r) ==
    LET req == Ran(reqs[r])
        found == FindItem(items, req.url.path[1].id)
    IN /\ reqs[r].pc = "handler" /\ reqs[r].route = "getItem"
       /\ IF found = {}
          THEN Set(r, Forward(req, ItemNotFound))
          ELSE Set(r, Send(req, Response("handler", 200, TRUE, "", "", <<>>,
                                         None,
                                         Some(CHOOSE i \in found : TRUE))))
       /\ UNCHANGED <<users, items, nextId, now, tokens, proc, client>>

\* update validators of findByIdAndUpdate(..., {runValidators: true})
ItemUpdateThrows(title) == ~IsLengthMax(Trim(title), TitleMax)

\* PUT /:id handler: only the fields sent and not empty are set
UpdateItemHandler(r) ==
    LET req == Ran(reqs[r])
        b == req.body
        found == FindItem(items, req.url.path[1].id)
    IN /\ reqs[r].pc = "handler" /\ reqs[r].route = "updateItem"
       /\ IF ItemUpdateThrows(b.title)
          THEN /\ Set(r, Forward(req, ApiError500("Error updating item")))
               /\ UNCHANGED items
          ELSE IF found = {}
          THEN /\ Set(r, Forward(req, ItemNotFound))
               /\ UNCHANGED items
          ELSE LET old == CHOOSE i \in found : TRUE
                   item == [old EXCEPT
                       !.title = IF IsEmpty(b.title) THEN @ ELSE Trim(b.title),
                       !.content = IF IsEmpty(b.content) THEN @
                                   ELSE Trim(b.content),
                       !.updatedAt = now]
               IN /\ items' = (items \ {old}) \cup {item}
                  /\ Set(r, Send(req, Response("handler", 200, TRUE, "",
                         "Item updated successfully", <<>>, None, Some(item))))
       /\ UNCHANGED <<users, nextId, now, tokens, proc, client>>

\* DELETE /:id handler
DeleteItemHandler(r) ==
    LET req == Ran(reqs[r])
        found == FindItem(items, req.url.path[1].id)
    IN /\ reqs[r].pc = "handler" /\ reqs[r].route = "deleteItem"
       /\ IF found = {}
          THEN /\ Set(r, Forward(req, ItemNotFound))
               /\ UNCHANGED items
          ELSE /\ items' = items \ found
               /\ Set(r, Send(req, Response("handler", 200, TRUE, "",
                      "Item deleted successfully", <<>>, None, None)))
       /\ UNCHANGED <<users, nextId, now, tokens, proc, client>>

\* Item.find(query) for query = q ? {$text: {$search: q}} : {}: every item,
\* or the items whose title or content has the word q.
Matching(its, q) ==
    IF q = None \/ IsEmpty(Get(q)) THEN its
    ELSE {i \in its : i.title.core = Get(q).core
                         \/ i.content.core = Get(q).core}

\* .skip(skip).limit(limit) of a result list
Page(o, skip, limit) ==
    SubSeq(o, skip + 1, IF skip + limit < Len(o) THEN skip + limit ELSE Len(o))

\* The chain of the search route run on a request with a query, as the
\* router runs it once the route is reached (Dispatch says when).
EnterSearch(r, Q) ==
    /\ phase = "listening"
    /\ reqs[r].pc = "idle"
    /\ \E q \in Q :
          Set(r, [NewReq("search", "validate", None, EmptyBody, {}, None)
                    EXCEPT !.url = Url("/api/items", <<Search>>), !.query = q])
    /\ UNCHANGED <<users, items, nextId, now, tokens, proc, client>>

\* GET /search handler, up to the first await: the page of results is read
SearchFind(r) ==
    LET req == Ran(reqs[r])
        page == ParseIntOr(req.query.page, 1)
        limit == ParseIntOr(req.query.limit, DefaultLimit)
    IN /\ reqs[r].pc = "handler" /\ reqs[r].route = "search"
       /\ \E o \in NewestFirst(Matching(items, req.query.q)) :
             Set(r, [req EXCEPT !.found = Page(o, (page - 1) * limit, limit),
                                !.pc = "count"])
       /\ UNCHANGED <<users, items, nextId, now, tokens, proc, client>>

\* GET /search handler, from the second await: the matching items are
\* counted and the response is sent
SearchCount(r) ==
    LET req == reqs[r]
        page == ParseIntOr(req.query.page, 1)
        limit == ParseIntOr(req.query.limit, DefaultLimit)
        total == Cardinality(Matching(items, req.query.q))
    IN /\ req.pc = "count"
       /\ Set(r, Send(req, Response("handler", 200, TRUE, "", "", <<>>, None,
              Some([results |-> req.found,
                    pagination |->
                      [total |-> total, page |-> page, limit |-> limit,
                       pages |-> Ceil(total, limit),
                       hasNextPage |-> page < Ceil(total, limit),
                       hasPrevPage |-> page > 1]]))))
       /\ UNCHANGED <<users, items, nextId, now, tokens, proc, client>>

\* ----------------------------------------------------------------- client
Action(type, payload) == [type |-> type, payload |-> payload]

\* authReducer
AuthReducerKeepsError(state, action) ==
    IF action.type = "AUTH_START"
    THEN [state EXCEPT !.isLoading = TRUE, !.error = None]
    ELSE IF action.type = "AUTH_SUCCESS"
    THEN [state EXCEPT !.isLoading = FALSE, !.isAuthenticated = TRUE,
                       !.user = action.payload.user,
                       !.token = action.payload.token]
    ELSE IF action.type = "AUTH_FAILURE"
    THEN [state EXCEPT !.isLoading = FALSE, !.isAuthenticated = FALSE,
                       !.error = Some(action.payload)]
    ELSE IF action.type = "LOGOUT"
    THEN [state EXCEPT !.isAuthenticated = FALSE, !.user = None,
                       !.token = None]
    ELSE IF action.type = "CLEAR_ERROR"
    THEN [state EXCEPT !.error = None]
    ELSE state

AuthReducer(state, action) ==
    IF action.type = "AUTH_START"
    THEN [state EXCEPT !.isLoading = TRUE, !.error = None]
    ELSE IF action.type = "AUTH_SUCCESS"
    THEN [state EXCEPT !.isLoading = FALSE, !.isAuthenticated = TRUE,
                       !.user = action.payload.user,
                       !.token = action.payload.token, !.error = None]
    ELSE IF action.type = "AUTH_FAILURE"
    THEN [state EXCEPT !.isLoading = FALSE, !.isAuthenticated = FALSE,
                       !.error = Some(action.payload)]
    ELSE IF action.type = "LOGOUT"
    THEN [state EXCEPT !.isAuthenticated = FALSE, !.user = None,
                       !.token = None]
    ELSE IF action.type = "CLEAR_ERROR"
    THEN [state EXCEPT !.error = None]
    ELSE state

\* dispatch(action) of useReducer(authReducer, initialAuthState): the state
\* is replaced by the reducer's result; last is the action dispatched.
DispatchAction(c, action) ==
    [c EXCEPT !.state = AuthReducer(@, action), !.last = Some(action)]

\* localStorage.setItem(key, value) stores String(value): an undefined value
\* is stored as the word "undefined".
Stored(value) == IF value = None THEN Some(Word("undefined")) ELSE value

\* The slot of the call the client has in flight
Calls(r, fn) == client.call = Some([fn |-> fn, slot |-> r])

\* register(data) / login(credentials): dispatch AUTH_START, then fetch
Call(r, fn, U, P) ==
    /\ phase = "listening"
    /\ client.call = None
    /\ reqs[r].pc = "idle"
    /\ \E u \in U, p \in P :
          Set(r, NewReq(fn, "validate", None,
                        [EmptyBody EXCEPT !.username = u, !.password = p],
                        {}, None))
    /\ client' = [DispatchAction(client, Action("AUTH_START", None)) EXCEPT
                     !.call = Some([fn |-> fn, slot |-> r]),
                     !.resolved = "none"]
    /\ UNCHANGED <<users, items, nextId, now, tokens, proc>>

ClientRegister(r, U, P) == Call(r, "register", U, P)
ClientLogin(r, U, P) == Call(r, "login", U, P)

\* registerUser / loginUser once the response is in, and the dispatch that
\* follows in register / login: on !response.ok || !data.success throw and
\* AUTH_FAILURE; else store data.token and AUTH_SUCCESS {user, token}.
Resolve(r, fn, fallback) ==
    LET resp == Get(reqs[r].resp)
        ok == resp.status >= 200 /\ resp.status < 300
    IN /\ Calls(r, fn)
       /\ reqs[r].pc = "done"
       /\ IF ~ok \/ ~resp.success
          THEN client' = [DispatchAction(client, Action("AUTH_FAILURE",
                      IF resp.message /= "" THEN resp.message ELSE fallback))
                  EXCEPT
                  !.call = None,
                  !.resolved = "failed"]
          ELSE client' = [DispatchAction(client, Action("AUTH_SUCCESS",
                      [user |-> resp.data, token |-> resp.token]))
                  EXCEPT
                  !.storage = Stored(resp.token),
                  !.call = None,
                  !.resolved = fn]
       /\ reqs' = [reqs EXCEPT ![r] = Idle]
       /\ UNCHANGED <<users, items, nextId, now, tokens, proc>>

RegisterResolves(r) == Resolve(r, "register", "Registration failed")
LoginResolves(r) == Resolve(r, "login", "Login failed")

\* The reducer applied to an action of its own choosing, as a caller of the
\* exported authReducer does: AUTH_START, AUTH_SUCCESS with a payload,
\* AUTH_FAILURE with a message, CLEAR_ERROR.
Reduce(P, E) ==
    /\ \/ client' = DispatchAction(client, Action("AUTH_START", None))
       \/ \E p \in P : client' = DispatchAction(client, Action("AUTH_SUCCESS", p))
       \/ \E e \in E : client' = DispatchAction(client, Action("AUTH_FAILURE", e))
       \/ client' = DispatchAction(client, Action("CLEAR_ERROR", None))
    /\ UNCHANGED <<users, items, nextId, reqs, now, tokens, proc>>

\* logout(): logoutUser() removes auth_token, then LOGOUT is dispatched
ClientLogoutKeepsStorage ==
    /\ client' = [DispatchAction(client, Action("LOGOUT", None)) EXCEPT
                     !.resolved = "none"]
    /\ UNCHANGED <<users, items, nextId, reqs, now, tokens, proc>>

ClientLogout ==
    /\ client' = [DispatchAction(client, Action("LOGOUT", None)) EXCEPT
                     !.storage = None,
                     !.resolved = "none"]
    /\ UNCHANGED <<users, items, nextId, reqs, now, tokens, proc>>

\* clearError()
ClientClearError ==
    /\ client' = DispatchAction(client, Action("CLEAR_ERROR", None))
    /\ UNCHANGED <<users, items, nextId, reqs, now, tokens, proc>>

\* ----------------------------------------------------- client: Items page
\* response.json() of an item route's response: the keys the body carries.
\* GET / sends {success, items}; the routes of one item send {success, item};
\* DELETE sends {success, message}; an error sends {success, error}.
Body(req) ==
    LET resp == Get(req.resp) IN
    [ok |-> resp.status >= 200 /\ resp.status < 300,
     success |-> resp.success,
     message |-> resp.message,
     data |-> None,
     items |-> IF req.route = "listItems" THEN resp.data ELSE None,
     item |-> IF req.route \in {"getItem", "createItem", "updateItem"}
              THEN resp.data ELSE None]

\* ApiService.handleResponse: throw on !response.ok || data.success === false,
\* else return data.data || data.items || data.item || data. An array is
\* truthy, empty or not.
HandleResponse(b) ==
    IF ~b.ok \/ b.success = FALSE
    THEN [thrown |-> TRUE,
          message |-> IF b.message /= "" THEN b.message ELSE "HTTP error",
          kind |-> "none", value |-> None, body |-> b]
    ELSE IF b.data /= None
    THEN [thrown |-> FALSE, message |-> "", kind |-> "data", value |-> b.data,
          body |-> b]
    ELSE IF b.items /= None
    THEN [thrown |-> FALSE, message |-> "", kind |-> "array", value |-> b.items,
          body |-> b]
    ELSE IF b.item /= None
    THEN [thrown |-> FALSE, message |-> "", kind |-> "item", value |-> b.item,
          body |-> b]
    ELSE [thrown |-> FALSE, message |-> "", kind |-> "body", value |-> None,
          body |-> b]

\* response.items of what handleResponse returned: the key of the body when
\* the body itself came back; an array, an item and these routes' data have
\* no such property.
ItemsProperty(res) == IF res.kind = "body" THEN res.body.items ELSE None

\* DataService.getItems: response.items || []
GetItems(res) ==
    IF ItemsProperty(res) = None THEN <<>> ELSE Get(ItemsProperty(res))

\* DataService.deleteItem: response.success
DeleteItem(res) == res.kind = "body" /\ res.body.success

\* getAuthHeader(): Authorization: Bearer <auth_token> when there is one
AuthHeader ==
    IF client.storage = None THEN None
    ELSE Some(<<Bearer, SP, Get(client.storage)>>)

\* the request the page has under way in slot r
Awaits(r, fn) == \E c \in client.page.calls : c.slot = r /\ c.fn = fn

\* fetchItems(): setLoading(true), setError(null), then GET /api/items
FetchItems(r) ==
    /\ phase = "listening"
    /\ reqs[r].pc = "idle"
    /\ Set(r, [NewReq("listItems", FirstStage("listItems"), AuthHeader,
                      EmptyBody, {}, None)
                 EXCEPT !.url = Url("/api/items", <<>>)])
    /\ client' = [client EXCEPT
                     !.page.loading = TRUE,
                     !.page.error = None,
                     !.page.calls = @ \cup {[fn |-> "fetch", slot |-> r,
                                             id |-> 0, seen |-> <<>>]}]
    /\ UNCHANGED <<users, items, nextId, now, tokens, proc>>

\* fetchItems() once the response is in: setItems(fetchedItems), or
\* setError(err.message); finally setLoading(false)
FetchResolves(r) ==
    LET res == HandleResponse(Body(reqs[r])) IN
    /\ Awaits(r, "fetch")
    /\ reqs[r].pc = "done"
    /\ client' = [client EXCEPT
                     !.page.items = IF res.thrown THEN @ ELSE GetItems(res),
                     !.page.error = IF res.thrown THEN Some(res.message) ELSE @,
                     !.page.loading = FALSE,
                     !.page.calls = {c \in @ : c.slot /= r}]
    /\ Set(r, Idle)
    /\ UNCHANGED <<users, items, nextId, now, tokens, proc>>

\* handleDeleteItem(id) of the button of an item the page shows: DELETE
\* /api/items/<id>; the function belongs to the render that drew the button
\* and keeps that render's items.
ClickDelete(r) ==
    /\ phase = "listening"
    /\ reqs[r].pc = "idle"
    /\ ~client.page.loading
    /\ \E k \in DOMAIN client.page.items :
          LET id == client.page.items[k].id IN
          /\ Set(r, [NewReq(Dispatch("DELETE", <<Oid(id)>>), "validate",
                            AuthHeader, EmptyBody, {}, None)
                       EXCEPT !.method = "DELETE",
                              !.url = Url("/api/items", <<Oid(id)>>)])
          /\ client' = [client EXCEPT
                           !.page.calls = @ \cup {[fn |-> "delete", slot |-> r,
                                                   id |-> id,
                                                   seen |-> client.page.items]}]
    /\ UNCHANGED <<users, items, nextId, now, tokens, proc>>

\* items.filter(item => item.id !== id)
Without(list, id) == SelectSeq(list, LAMBDA i : i.id /= id)

\* handleDeleteItem once the response is in: on success
\* setItems(items.filter(...)) over the items it kept, else setError
DeleteResolves(r) ==
    LET res == HandleResponse(Body(reqs[r]))
        c == CHOOSE c \in client.page.calls : c.slot = r
    IN /\ Awaits(r, "delete")
       /\ reqs[r].pc = "done"
       /\ client' = [client EXCEPT
                        !.page.items =
                            IF ~res.thrown /\ DeleteItem(res)
                            THEN Without(c.seen, c.id) ELSE @,
                        !.page.error =
                            IF res.thrown THEN Some(res.message)
                            ELSE IF ~DeleteItem(res)
                            THEN Some("Failed to delete item") ELSE @,
                        !.page.calls = @ \ {c}]
       /\ Set(r, Idle)
       /\ UNCHANGED <<users, items, nextId, now, tokens, proc>>

\* ------------------------------------------------------------ client: App
\* window.navigate(path): pushState, then setCurrentPath
Navigate(P) ==
    /\ \E p \in P : client' = [client EXCEPT !.app.currentPath = p]
    /\ UNCHANGED <<users, items, nextId, reqs, now, tokens, proc>>

\* Another window of the same origin stores or removes auth_token: this
\* window gets a storage event and checkAuth runs.
StorageEvent ==
    /\ \E st \in ({None} \cup {Some(t) : t \in tokens}) \ {client.storage} :
          client' = [client EXCEPT !.storage = st,
                                   !.app.isAuthenticated = (st /= None)]
    /\ UNCHANGED <<users, items, nextId, reqs, now, tokens, proc>>

\* renderCurrentPage
ProtectedPaths == {"/items", "/profile"}

PageAt(path) ==
    IF path = "/" THEN "Home"
    ELSE IF path = "/items" THEN "Items"
    ELSE IF path = "/profile" THEN "Profile"
    ELSE IF path = "/login" THEN "Login"
    ELSE IF path = "/register" THEN "Register"
    ELSE "NotFound"

RenderCurrentPage(app) ==
    IF ~app.isAuthenticated /\ app.currentPath \in ProtectedPaths
    THEN "Login"
    ELSE PageAt(app.currentPath)

\* The response has gone out to a caller other than the client above, or the
\* gate has passed the request on: the slot is free again.
Finish(r) ==
    /\ ~Calls(r, "register") /\ ~Calls(r, "login")
    /\ \/ reqs[r].pc = "done"
       \/ reqs[r].pc = "handler" /\ reqs[r].route = "gated"
    /\ Set(r, Idle)
    /\ UNCHANGED <<users, items, nextId, now, tokens, proc, client>>

\* The User collection changed from outside the API (no route deletes a
\* user or changes a role): a document is removed, while ids up to MaxIds are
\* handed out, or its role is set to another one.
DeleteUser ==
    /\ nextId <= MaxIds
    /\ \E u \in users : users' = users \ {u}
    /\ UNCHANGED <<items, nextId, reqs, now, tokens, proc, client>>

ChangeRole ==
    /\ \E u \in users :
          \E ro \in Roles \ {u.role} :
              users' = (users \ {u}) \cup {[u EXCEPT !.role = ro]}
    /\ UNCHANGED <<items, nextId, reqs, now, tokens, proc, client>>

Tick ==
    /\ now < MaxTime
    /\ now' = now + 1
    /\ UNCHANGED <<users, items, nextId, reqs, tokens, proc, client>>

\* ------------------------------------------------------------------ inputs
Bob == Txt("bob", 3, 0)
BobPadded == Txt("bob", 3, 1)
Amy == Txt("amy", 3, 0)
Al == Txt("al", UsernameMin - 1, 0)
LongName == Txt("long", UsernameMax + 1, 0)
Spaces == Txt("", 0, 1)

Secret6 == Txt("secret", PasswordMin, 0)
Other6 == Txt("other", PasswordMin, 0)
Short5 == Txt("short", PasswordMin - 1, 0)

\* users and tokens a client can hold, error messages it can show
UserBob == [id |-> 1, username |-> Bob, role |-> "user"]
UserAmy == [id |-> 2, username |-> Amy, role |-> "admin"]
TokenOf(u, t) == JwtSign(u, Secret, ExpiresIn, t)
ClientUsers == {UserBob, UserAmy}
ClientTokens == {TokenOf(UserBob, 0), TokenOf(UserAmy, 1)}
ClientErrors == {"Login failed", "Invalid credentials"}

\* every value of type AuthState over these
AuthStates ==
    [user : {None} \cup {Some(u) : u \in ClientUsers},
     token : {None} \cup {Some(t) : t \in ClientTokens},
     isAuthenticated : BOOLEAN,
     isLoading : BOOLEAN,
     error : {None} \cup {Some(m) : m \in ClientErrors}]

\* the payloads of AUTH_SUCCESS
Payloads ==
    [user : {Some(u) : u \in ClientUsers},
     token : {Some(t) : t \in ClientTokens}]

\* paths the window is navigated to
Paths == {"/", "/items", "/profile", "/login", "/nowhere"}

Title1 == Txt("T", 1, 0)
TitleFull == Txt("full", TitleMax, 0)
TitleFullPadded == Txt("full", TitleMax, 1)
TitleOver == Txt("over", TitleMax + 1, 0)
Content1 == Txt("C", 1, 0)

RegUsernames == {Bob, BobPadded, Amy, Al, LongName, Blank, Spaces}
RegPasswords == {Secret6, Short5, Blank}
LoginUsernames == {Bob, BobPadded, Amy, Blank}
LoginPasswords == {Secret6, Other6, Blank}
Titles == {Title1, TitleFull, TitleFullPadded, TitleOver, Blank, Spaces}
Contents == {Content1, Blank}

\* Requests to /api/items: every method; the mount point, each id and the
\* word search as the path; a query with page and limit; bodies with and
\* without each field.
Methods == {"GET", "POST", "PUT", "DELETE"}
ItemPaths == {<<>>, <<Search>>} \cup {<<Oid(n)>> : n \in 1..MaxIds}
PageTwo == [q |-> None, page |-> Some(Digits(2)), limit |-> Some(Digits(10))]
Queries == {NoQuery, PageTwo}

\* Searches: a word or none; page absent, 0, 1, 2, 3 or not a number; limit
\* absent, 1, 2, the largest allowed, one more, or not a number.
SearchQueries ==
    [q : {None, Some(Title1)},
     page : {None, Some(Word("abc"))} \cup {Some(Digits(n)) : n \in 0..3},
     limit : {None, Some(Word("abc"))}
             \cup {Some(Digits(n)) : n \in {1, 2, LimitMax, LimitMax + 1}}]

\* A store of n items, created two per clock tick, every other one under
\* another title.
Stock(n) ==
    {ItemDoc(i, IF i % 2 = 1 THEN Title1 ELSE TitleFull, Content1, None,
             i \div 2) : i \in 1..n}
ItemTitles == {Title1, TitleFullPadded, Missing}
ItemContents == {Content1, Missing}

\* A few headers of each kind: none, empty, well formed, wrong scheme, bare.
SampleHeaders ==
    {None, Some(<<>>)} \cup
    UNION {{Some(<<Bearer, SP, t>>), Some(<<Basic, SP, t>>), Some(<<t>>)} :
           t \in Presentable}

\* ---------------------------------------------------------- specifications
\* The whole backend, one request at a time, with a few inputs per route.
Next ==
    \/ ArriveRegister(1, {Bob, Al}, {Secret6, Short5})
    \/ ArriveLogin(1, {Bob, Amy}, {Secret6, Other6})
    \/ ArriveCreateItem(1, {Title1, TitleOver}, {Content1, Blank})
    \/ ArriveMe(1, SampleHeaders)
    \/ ArriveGated(1)
    \/ ArriveUnknown(1)
    \/ ArriveMalformed(1)
    \/ ArriveFailing(1)
    \/ RunValidators(1)
    \/ ValidateRequest(1)
    \/ AuthenticateJWT(1)
    \/ Authorize(1)
    \/ NotFoundHandler(1)
    \/ RegisterHandler(1)
    \/ LoginHandler(1)
    \/ MeHandler(1)
    \/ CreateItemHandler(1)
    \/ ErrorHandler(1)
    \/ Finish(1)
    \/ Tick

Spec == Init /\ [][Next]_vars

\* Registration and login served concurrently in every slot.
NextReg ==
    \E r \in Slots :
        \/ ArriveRegister(r, {Bob, BobPadded, Al}, {Secret6, Short5})
        \/ ArriveLogin(r, {Bob, Amy}, {Secret6, Other6})
        \/ RunValidators(r)
        \/ ValidateRequest(r)
        \/ RegisterHandler(r)
        \/ LoginHandler(r)
        \/ ErrorHandler(r)
        \/ Finish(r)

SpecReg == Init /\ [][NextReg]_vars

\* The validated routes with every input of the sets above.
NextValid ==
    \/ ArriveRegister(1, RegUsernames, RegPasswords)
    \/ ArriveLogin(1, LoginUsernames, LoginPasswords)
    \/ ArriveCreateItem(1, Titles, Contents)
    \/ RunValidators(1)
    \/ ValidateRequest(1)
    \/ RegisterHandler(1)
    \/ LoginHandler(1)
    \/ CreateItemHandler(1)
    \/ ErrorHandler(1)
    \/ Finish(1)

SpecValid == Init /\ [][NextValid]_vars

\* Token issue and verification against the clock, with every header of up
\* to MaxHeaderLen pieces, and the role gate.
NextAuth ==
    \/ ArriveRegister(1, {Bob}, {Secret6})
    \/ ArriveLogin(1, {Bob}, {Secret6})
    \/ ArriveMe(1, Headers)
    \/ ArriveGated(1)
    \/ RunValidators(1)
    \/ ValidateRequest(1)
    \/ AuthenticateJWT(1)
    \/ Authorize(1)
    \/ RegisterHandler(1)
    \/ LoginHandler(1)
    \/ MeHandler(1)
    \/ ErrorHandler(1)
    \/ Finish(1)
    \/ Tick

SpecAuth == Init /\ [][NextAuth]_vars

\* The item routes, requests served one at a time.
NextItems ==
    \/ ArriveItems(1, Methods, ItemPaths, ItemTitles, ItemContents, Queries)
    \/ RunValidators(1)
    \/ ValidateRequest(1)
    \/ NotFoundHandler(1)
    \/ ListItemsHandler(1)
    \/ GetItemHandler(1)
    \/ CreateItemHandler(1)
    \/ UpdateItemHandler(1)
    \/ DeleteItemHandler(1)
    \/ ErrorHandler(1)
    \/ Finish(1)
    \/ Tick

SpecItems == Init /\ [][NextItems]_vars

\* The search route's chain and handler over a store of up to MaxStock items.
InitSearch ==
    /\ \E n \in 0..MaxStock :
          /\ items = Stock(n)
          /\ nextId = n + 1
          /\ now = n \div 2
    /\ users = {}
    /\ reqs = [r \in Slots |-> Idle]
    /\ tokens = {}
    /\ nodeEnv \in {"development", "production"}
    /\ client = InitialClient
    /\ jwtSecretEnv = Some(Secret)
    /\ phase = "listening"

NextSearch ==
    \/ EnterSearch(1, SearchQueries)
    \/ RunValidators(1)
    \/ ValidateRequest(1)
    \/ SearchFind(1)
    \/ SearchCount(1)
    \/ Finish(1)

SpecSearch == InitSearch /\ [][NextSearch]_vars

\* The search handler while items are created and deleted by other requests.
NextRace ==
    \/ EnterSearch(1, {NoQuery, PageTwo})
    \/ RunValidators(1)
    \/ ValidateRequest(1)
    \/ SearchFind(1)
    \/ SearchCount(1)
    \/ Finish(1)
    \/ ArriveItems(2, {"POST", "DELETE"}, {<<>>, <<Oid(1)>>},
                   {Title1, Missing}, {Content1, Missing}, {NoQuery})
    \/ RunValidators(2)
    \/ ValidateRequest(2)
    \/ NotFoundHandler(2)
    \/ CreateItemHandler(2)
    \/ DeleteItemHandler(2)
    \/ ErrorHandler(2)
    \/ Finish(2)

SpecRace == InitSearch /\ [][NextRace]_vars

\* The Items page showing the list of a store of up to MaxStock items, no
\* request under way.
InitDelete ==
    /\ \E n \in 0..MaxStock :
          /\ items = Stock(n)
          /\ nextId = n + 1
          /\ now = n \div 2
          /\ \E o \in NewestFirst(Stock(n)) :
                client = [InitialClient EXCEPT !.page.items = o,
                                               !.page.loading = FALSE]
    /\ users = {}
    /\ reqs = [r \in Slots |-> Idle]
    /\ tokens = {}
    /\ nodeEnv = "development"
    /\ jwtSecretEnv = Some(Secret)
    /\ phase = "listening"

\* Deletes from the page, up to two under way at once.
NextDelete ==
    \/ \E r \in 1..2 : ClickDelete(r)
    \/ \E r \in 1..2 : RunValidators(r)
    \/ \E r \in 1..2 : ValidateRequest(r)
    \/ \E r \in 1..2 : DeleteItemHandler(r)
    \/ \E r \in 1..2 : ErrorHandler(r)
    \/ \E r \in 1..2 : DeleteResolves(r)

SpecDelete == InitDelete /\ [][NextDelete]_vars

\* Failing requests in every environment.
NextEnv ==
    \/ ArriveFailing(1)
    \/ ArriveMalformed(1)
    \/ ArriveUnknown(1)
    \/ NotFoundHandler(1)
    \/ ErrorHandler(1)
    \/ Finish(1)
    \/ Tick

SpecEnv == InitEnv /\ [][NextEnv]_vars

\* The reducer and the provider's functions are given any auth state and
\* any content of localStorage.
InitReducer ==
    /\ users = {}
    /\ items = {}
    /\ nextId = 1
    /\ reqs = [r \in Slots |-> Idle]
    /\ now = 0
    /\ tokens = {}
    /\ nodeEnv = "development"
    /\ jwtSecretEnv = Some(Secret)
    /\ phase = "listening"
    /\ \E s \in AuthStates, st \in {None} \cup {Some(t) : t \in ClientTokens} :
          client = [InitialClient EXCEPT !.state = s, !.storage = st]

\* The reducer and the provider's synchronous functions, from any state.
NextReducer ==
    \/ Reduce(Payloads, ClientErrors)
    \/ ClientLogout
    \/ ClientClearError

SpecReducer == InitReducer /\ [][NextReducer]_vars

\* Logged-in and anonymous clients creating items.
NextOwner ==
    \/ ArriveRegister(1, {Bob}, {Secret6})
    \/ ArriveLogin(1, {Bob}, {Secret6, Other6})
    \/ ArriveCreateItemBearing(1, {Title1, TitleOver}, {Content1})
    \/ RunValidators(1)
    \/ ValidateRequest(1)
    \/ RegisterHandler(1)
    \/ LoginHandler(1)
    \/ CreateItemHandler(1)
    \/ ErrorHandler(1)
    \/ Finish(1)

SpecOwner == Init /\ [][NextOwner]_vars

\* The Items page fetching the list while items are created.
NextPage ==
    \/ FetchItems(1)
    \/ FetchResolves(1)
    \/ ListItemsHandler(1)
    \/ ArriveCreateItem(2, {Title1, TitleOver}, {Content1})
    \/ RunValidators(2)
    \/ ValidateRequest(2)
    \/ CreateItemHandler(2)
    \/ Finish(2)
    \/ Tick

SpecPage == Init /\ [][NextPage]_vars

\* One window: logins and logouts through the provider, navigation, and
\* storage events from other windows; users are registered over the API.
NextApp ==
    \/ ArriveRegister(1, {Bob}, {Secret6})
    \/ ClientLogin(1, {Bob}, {Secret6, Other6})
    \/ RunValidators(1)
    \/ ValidateRequest(1)
    \/ RegisterHandler(1)
    \/ LoginHandler(1)
    \/ ErrorHandler(1)
    \/ LoginResolves(1)
    \/ Finish(1)
    \/ ClientLogout
    \/ Navigate(Paths)
    \/ StorageEvent

SpecApp == Init /\ [][NextApp]_vars

\* Every middleware and every auth and item route handler, one request at
\* a time.
NextPipeline ==
    \/ ArriveRegister(1, {Bob}, {Secret6, Short5})
    \/ ArriveLogin(1, {Bob}, {Secret6, Other6})
    \/ ArriveMe(1, SampleHeaders)
    \/ ArriveGated(1)
    \/ ArriveItems(1, Methods, ItemPaths, {Title1, Missing},
                   {Content1, Missing}, {NoQuery})
    \/ RunValidators(1)
    \/ ValidateRequest(1)
    \/ AuthenticateJWT(1)
    \/ Authorize(1)
    \/ NotFoundHandler(1)
    \/ RegisterHandler(1)
    \/ LoginHandler(1)
    \/ MeHandler(1)
    \/ ListItemsHandler(1)
    \/ GetItemHandler(1)
    \/ CreateItemHandler(1)
    \/ UpdateItemHandler(1)
    \/ DeleteItemHandler(1)
    \/ ErrorHandler(1)
    \/ Finish(1)

SpecPipeline == Init /\ [][NextPipeline]_vars

\* The process from its launch: start-up, then the auth routes.
NextBoot ==
    \/ ConnectToDatabase
    \/ Listen
    \/ ArriveRegister(1, {Bob}, {Secret6})
    \/ ArriveLogin(1, {Bob}, {Secret6, Other6})
    \/ ArriveMe(1, SampleHeaders)
    \/ RunValidators(1)
    \/ ValidateRequest(1)
    \/ AuthenticateJWT(1)
    \/ RegisterHandler(1)
    \/ LoginHandler(1)
    \/ MeHandler(1)
    \/ ErrorHandler(1)
    \/ Finish(1)
    \/ Tick

SpecBoot == InitBoot /\ [][NextBoot]_vars

\* Tokens presented while the User collection is changed from outside.
NextRevoke ==
    \/ ArriveRegister(1, {Bob}, {Secret6})
    \/ ArriveLogin(1, {Bob}, {Secret6})
    \/ ArriveMe(1, SampleHeaders)
    \/ RunValidators(1)
    \/ ValidateRequest(1)
    \/ AuthenticateJWT(1)
    \/ RegisterHandler(1)
    \/ LoginHandler(1)
    \/ MeHandler(1)
    \/ ErrorHandler(1)
    \/ Finish(1)
    \/ DeleteUser
    \/ ChangeRole
    \/ Tick

SpecRevoke == Init /\ [][NextRevoke]_vars

\* The browser client registering, logging in and logging out against the
\* auth routes.
NextClient ==
    \/ ClientRegister(1, {Bob, Al}, {Secret6})
    \/ ClientLogin(1, {Bob, Amy}, {Secret6, Other6})
    \/ RunValidators(1)
    \/ ValidateRequest(1)
    \/ RegisterHandler(1)
    \/ LoginHandler(1)
    \/ ErrorHandler(1)
    \/ RegisterResolves(1)
    \/ LoginResolves(1)
    \/ ClientLogout
    \/ ClientClearError

SpecClient == Init /\ [][NextClient]_vars

\* ------------------------------------------------------------- properties
Answered(req) == req.pc = "done"
Resp(req) == Get(req.resp)

\* The request is being rejected with this status and code: the error is on
\* its way to the errorHandler, or the response has been sent.
Rejected(req, status, code) ==
    \/ /\ req.pc = "error"
       /\ Get(req.err).name = "ApiError"
       /\ Get(req.err).statusCode = status
       /\ Get(req.err).code = code
    \/ /\ req.pc = "done"
       /\ Resp(req).status = status
       /\ Resp(req).code = code
       /\ Resp(req).success = FALSE

\* Slot r takes the step of the stage named pc.
Steps(r, pc) == reqs[r].pc = pc /\ reqs'[r].pc /= pc

\* A header of exactly two space-separated parts, the first exactly "Bearer":
\* one blank, in second place, after the word Bearer.
TwoPartBearer(h) ==
    /\ Len(h) >= 2
    /\ h[1] = Bearer
    /\ h[2] = SP
    /\ \A i \in 3..Len(h) : h[i] /= SP

\* C1: a request to the protected route GET /api/auth/me that carries no
\* Authorization header is rejected with 401 AUTH_REQUIRED, and the route
\* handler never runs for it.
C1_NoHeaderRejected ==
    \A r \in Slots :
        (reqs[r].route = "me" /\ reqs[r].hdr = None) =>
            /\ ~reqs[r].ran
            /\ reqs[r].pc \in {"auth", "error", "done"}
            /\ reqs[r].pc /= "auth" => Rejected(reqs[r], 401, "AUTH_REQUIRED")

C1_Witness ==
    \E r \in Slots :
        /\ reqs[r].route = "me" /\ reqs[r].hdr = None
        /\ Answered(reqs[r])
        /\ Resp(reqs[r]).by = "errorHandler"

\* C2: when authenticateJWT verifies the token of a well-formed Bearer
\* header, a correctly signed token whose expiry has elapsed is rejected with
\* 401 TOKEN_EXPIRED, every other token that does not verify with 401
\* INVALID_TOKEN, no identity is attached in either case, and the errorHandler
\* answers with that status and code.
C2_Step ==
    \A r \in Slots :
        /\ (Steps(r, "auth") /\ reqs[r].hdr /= None
                /\ TwoPartBearer(Get(reqs[r].hdr))) =>
              LET h == Get(reqs[r].hdr)
                  signed == Len(h) = 3 /\ h[3].kind = "jwt" /\ h[3].key = Secret
              IN /\ (signed /\ now >= h[3].exp) =>
                        Rejected(reqs'[r], 401, "TOKEN_EXPIRED")
                 /\ ~signed => Rejected(reqs'[r], 401, "INVALID_TOKEN")
                 /\ reqs'[r].pc = "error" => reqs'[r].user = None
        /\ (Steps(r, "error") /\ reqs[r].route = "me") =>
              /\ Rejected(reqs'[r], Get(reqs[r].err).statusCode,
                          Get(reqs[r].err).code)
              /\ reqs'[r].user = None

\* C2: expired tokens are rejected TOKEN_EXPIRED and other failing tokens
\* INVALID_TOKEN, with no identity attached, on every step.
C2_ExpiredOrInvalid == [][C2_Step]_vars

C2_Witness ==
    \E r \in Slots :
        /\ reqs[r].route = "me"
        /\ Answered(reqs[r])
        /\ Resp(reqs[r]).code = "TOKEN_EXPIRED"
        /\ Get(reqs[r].hdr)[3] \in tokens

\* C3 as stated: a header that is present but is not two space-separated
\* parts with the first exactly "Bearer" is rejected with 401
\* INVALID_AUTH_FORMAT and no verification is attempted.
C3_Original ==
    \A r \in Slots :
        (/\ reqs[r].route = "me"
         /\ reqs[r].pc /= "auth"
         /\ reqs[r].hdr /= None
         /\ ~TwoPartBearer(Get(reqs[r].hdr))) =>
            /\ Rejected(reqs[r], 401, "INVALID_AUTH_FORMAT")
            /\ ~reqs[r].verified

\* C3 (amended): a header that is present and not empty but is not two
\* space-separated parts with the first exactly "Bearer" is rejected with 401
\* INVALID_AUTH_FORMAT and no verification is attempted; a header that is
\* present but empty is rejected with 401 AUTH_REQUIRED, like a missing one.
C3_MalformedRejected ==
    \A r \in Slots :
        (/\ reqs[r].route = "me"
         /\ reqs[r].pc /= "auth"
         /\ reqs[r].hdr /= None
         /\ ~TwoPartBearer(Get(reqs[r].hdr))) =>
            /\ ~reqs[r].verified
            /\ ~reqs[r].ran
            /\ IF Get(reqs[r].hdr) = <<>>
               THEN Rejected(reqs[r], 401, "AUTH_REQUIRED")
               ELSE Rejected(reqs[r], 401, "INVALID_AUTH_FORMAT")

C3_Witness ==
    \E r \in Slots :
        /\ reqs[r].route = "me"
        /\ Answered(reqs[r])
        /\ Resp(reqs[r]).code = "INVALID_AUTH_FORMAT"
        /\ Len(Get(reqs[r].hdr)) = 3
        /\ Get(reqs[r].hdr)[1] = Basic
        /\ Get(reqs[r].hdr)[3] \in tokens

\* C4: a token that generateToken produced for the identity {id, username,
\* role} of a user, presented as "Bearer <token>" before its expiry, makes
\* authenticateJWT attach claims with the same id, username and role and pass
\* the request on with no error.
C4_Step ==
    \A r \in Slots : \A u \in users : \A iat \in 0..MaxTime :
        LET ident == [id |-> u.id, username |-> u.username, role |-> u.role]
            tok == GenerateToken(ident, iat)
        IN (/\ Steps(r, "auth")
            /\ reqs[r].hdr = Some(<<Bearer, SP, tok>>)
            /\ now < tok.exp) =>
               /\ reqs'[r].pc = "handler"
               /\ reqs'[r].err = None
               /\ reqs'[r].user /= None
               /\ Get(reqs'[r].user).id = ident.id
               /\ Get(reqs'[r].user).username = ident.username
               /\ Get(reqs'[r].user).role = ident.role

\* C4: issue then verify before expiry attaches the same identity, on every
\* step.
C4_RoundTrip == [][C4_Step]_vars

C4_Witness ==
    \E r \in Slots :
        /\ reqs[r].route = "me"
        /\ Answered(reqs[r])
        /\ Resp(reqs[r]).status = 200
        /\ Get(reqs[r].hdr)[3] \in tokens
        /\ now > Get(reqs[r].hdr)[3].iat
        /\ Get(reqs[r].user).id = Get(Resp(reqs[r]).data).id

\* C5: authorize(R) forwards 401 AUTH_REQUIRED when the request has no
\* identity, forwards 403 INSUFFICIENT_PERMISSIONS when the identity's role is
\* not in R, and otherwise passes the request on with no error; it changes
\* nothing else of the request and nothing of the store.
C5_Step ==
    \A r \in Slots :
        Steps(r, "authz") =>
            /\ IF reqs[r].user = None
               THEN Rejected(reqs'[r], 401, "AUTH_REQUIRED")
               ELSE IF Get(reqs[r].user).role \notin reqs[r].roles
               THEN Rejected(reqs'[r], 403, "INSUFFICIENT_PERMISSIONS")
               ELSE reqs'[r].pc = "handler" /\ reqs'[r].err = None
            /\ reqs'[r] = [reqs[r] EXCEPT !.pc = reqs'[r].pc,
                                          !.err = reqs'[r].err,
                                          !.acts = reqs'[r].acts]
            /\ UNCHANGED <<users, items, nextId, now, tokens, proc, client>>
            /\ \A q \in Slots \ {r} : reqs'[q] = reqs[q]

\* C5: authorize decides by identity and role and changes nothing else, on
\* every step.
C5_AuthorizeGate == [][C5_Step]_vars

C5_Witness ==
    \E r \in Slots :
        /\ reqs[r].route = "gated"
        /\ reqs[r].user /= None
        /\ reqs[r].roles = {"admin"}
        /\ Rejected(reqs[r], 403, "INSUFFICIENT_PERMISSIONS")
        /\ Answered(reqs[r])

HasEntry(entries, field) ==
    \E i \in 1..Len(entries) : entries[i].field = field

\* C6: a login with an unknown username and a login with an existing
\* username and a wrong password, once past validation, are denied with the
\* same error, the errorHandler answers both with one and the same response
\* (401, INVALID_CREDENTIALS, same message, no token), and neither issues a
\* token.
Denied ==
    ErrorResponse("errorHandler", 401, "INVALID_CREDENTIALS",
                  "Invalid username or password", <<>>)

C6_Step ==
    \A r \in Slots :
        /\ (Steps(r, "handler") /\ reqs[r].route = "login") =>
              LET found == {u \in users : u.username = reqs[r].body.username}
                  unknown == found = {}
                  wrong == /\ found /= {}
                           /\ \A u \in found :
                                 u.password /= Hash(reqs[r].body.password)
              IN (unknown \/ wrong) =>
                    /\ Rejected(reqs'[r], 401, "INVALID_CREDENTIALS")
                    /\ reqs'[r].pc = "error"
                    /\ tokens' = tokens
        /\ (Steps(r, "error") /\ reqs[r].route = "login"
                /\ Get(reqs[r].err).code = "INVALID_CREDENTIALS") =>
              /\ reqs'[r].pc = "done"
              /\ Resp(reqs'[r]) = Denied
              /\ tokens' = tokens

\* C6: unknown username and wrong password get one and the same denial and
\* no token, on every step.
C6_NoEnumeration == [][C6_Step]_vars

C6_Witness ==
    \E r, q \in Slots :
        /\ reqs[r].route = "login" /\ reqs[q].route = "login"
        /\ Answered(reqs[r]) /\ Answered(reqs[q])
        /\ FindByUsername(users, reqs[r].body.username) = {}
        /\ FindByUsername(users, reqs[q].body.username) /= {}
        /\ Resp(reqs[q]).code = "INVALID_CREDENTIALS"
        /\ Resp(reqs[r]) = Resp(reqs[q])

\* C7: when a user with the submitted (trimmed) username exists at the time
\* the registration is validated, the validators record an entry for field
\* username, whatever the password, and validateRequest answers 400 with that
\* entry without running the handler or touching the User collection.
C7_Step ==
    \A r \in Slots :
        /\ (/\ Steps(r, "validate")
            /\ reqs[r].route = "register"
            /\ FindByUsername(users, Trim(reqs[r].body.username)) /= {}) =>
              HasEntry(reqs'[r].errs, "username")
        /\ (/\ Steps(r, "check")
            /\ reqs[r].route = "register"
            /\ HasEntry(reqs[r].errs, "username")) =>
              /\ Answered(reqs'[r])
              /\ Resp(reqs'[r]).status = 400
              /\ HasEntry(Resp(reqs'[r]).details, "username")
              /\ ~reqs'[r].ran
              /\ users' = users

\* C7: a registration for an existing username is answered 400 with a
\* username entry and creates nothing, on every step.
C7_DuplicateRejected == [][C7_Step]_vars

C7_Witness ==
    \E r \in Slots :
        /\ reqs[r].route = "register"
        /\ Answered(reqs[r])
        /\ Resp(reqs[r]).status = 400
        /\ \E i \in 1..Len(Resp(reqs[r]).details) :
              Resp(reqs[r]).details[i] =
                  Entry("username", "Username already exists")
        /\ HasEntry(Resp(reqs[r]).details, "password")
        /\ Cardinality(users) = 1

\* C8 as stated: at most one user record per username is ever created, and a
\* registration with a valid password that was answered without creating the
\* record while a user with its username exists was answered 400 with an
\* entry for username, never 201 and never 500.
C8_Original ==
    /\ \A u, v \in users : u.username = v.username => u = v
    /\ \A r \in Slots :
          (/\ reqs[r].route = "register"
           /\ Answered(reqs[r])
           /\ IsLengthMin(reqs[r].body.password, PasswordMin)
           /\ \E u \in users :
                 /\ u.username = reqs[r].body.username
                 /\ \/ Resp(reqs[r]).data = None
                    \/ Get(Resp(reqs[r]).data).id /= u.id) =>
              /\ Resp(reqs[r]).status = 400
              /\ HasEntry(Resp(reqs[r]).details, "username")

\* The constraints a route declares that the request violates, each as
\* <<field, constraint>>, judged on the trimmed field while the handler has
\* not run.
Violated(req) ==
    LET u == Trim(req.body.username)
        p == Trim(req.body.password)
        t == Trim(req.body.title)
        c == Trim(req.body.content)
        reg == req.route = "register"
        auth == req.route \in {"register", "login"}
        item == req.route = "createItem"
    IN {v \in {<<"username", "required">>, <<"username", "length">>,
               <<"username", "unique">>, <<"password", "required">>,
               <<"password", "length">>, <<"title", "required">>,
               <<"title", "length">>, <<"content", "required">>} :
          \/ v = <<"username", "required">> /\ auth /\ Length(u) = 0
          \/ v = <<"username", "length">> /\ reg
                /\ (Length(u) < UsernameMin \/ Length(u) > UsernameMax)
          \/ v = <<"username", "unique">> /\ reg
                /\ \E x \in users : x.username = u
          \/ v = <<"password", "required">> /\ auth /\ Length(p) = 0
          \/ v = <<"password", "length">> /\ reg /\ Length(p) < PasswordMin
          \/ v = <<"title", "required">> /\ item /\ Length(t) = 0
          \/ v = <<"title", "length">> /\ item /\ Length(t) > TitleMax
          \/ v = <<"content", "required">> /\ item /\ Length(c) = 0}

\* C9: a request that violates a declared constraint of its route is answered
\* by validateRequest with 400 VALIDATION_ERROR carrying one entry per
\* violated constraint, its handler never runs and nothing is stored (no item
\* with a title over 100 characters exists); a request that violates none
\* reaches its handler.
C9_ValidationGate ==
    /\ \A i \in items : Length(i.title) <= TitleMax
    /\ \A r \in Slots :
         LET req == reqs[r]
             viol == Violated(req)
         IN req.route \in {"register", "login", "createItem"} =>
              /\ (req.pc = "handler" /\ ~req.ran) => viol = {}
              /\ req.ran => (req.resp = None \/ Resp(req).by /= "validateRequest")
              /\ (req.pc \in {"error", "done"} /\ ~req.ran /\ req.errs /= <<>>) =>
                    /\ Answered(req)
                    /\ Resp(req).by = "validateRequest"
              /\ (Answered(req) /\ Resp(req).by = "validateRequest") =>
                    /\ viol /= {}
                    /\ Resp(req).status = 400
                    /\ Resp(req).code = "VALIDATION_ERROR"
                    /\ Resp(req).success = FALSE
                    /\ Len(Resp(req).details) = Cardinality(viol)
                    /\ \A v \in viol : HasEntry(Resp(req).details, v[1])
                    /\ \A i \in 1..Len(Resp(req).details) :
                          \E v \in viol : v[1] = Resp(req).details[i].field
                    /\ ~req.ran
              /\ (req.pc \in {"check"} /\ viol /= {}) => req.errs /= <<>>

C9_Witness ==
    \E r \in Slots :
        /\ reqs[r].route = "createItem"
        /\ Length(reqs[r].body.title) > TitleMax
        /\ Length(reqs[r].body.content) = 0
        /\ Answered(reqs[r])
        /\ Resp(reqs[r]).status = 400
        /\ Len(Resp(reqs[r]).details) = 2
        /\ HasEntry(Resp(reqs[r]).details, "title")
        /\ items = {}

\* C10 as stated: every error response (status >= 400) is written by the
\* errorHandler.
C10_Original ==
    \A r \in Slots :
        (Answered(reqs[r]) /\ Resp(reqs[r]).status >= 400) =>
            Resp(reqs[r]).by = "errorHandler"

\* C10 (amended): every error response (status >= 400) is written by the
\* errorHandler, except the 400 VALIDATION_ERROR response, which
\* validateRequest writes itself; no route handler writes an error response.
C10_ErrorResponders ==
    \A r \in Slots :
        (Answered(reqs[r]) /\ Resp(reqs[r]).status >= 400) =>
            \/ Resp(reqs[r]).by = "errorHandler"
            \/ /\ Resp(reqs[r]).by = "validateRequest"
               /\ Resp(reqs[r]).status = 400
               /\ Resp(reqs[r]).code = "VALIDATION_ERROR"
               /\ ~reqs[r].ran

C10_Witness ==
    \E r \in Slots :
        /\ Answered(reqs[r])
        /\ reqs[r].ran
        /\ Resp(reqs[r]).status >= 400
        /\ Resp(reqs[r]).by = "errorHandler"

\* What the errorHandler answers for an error, by the class of the error.
Classified(req, env, rawless) ==
    LET e == Get(req.err)
        resp == Resp(req)
    IN /\ resp.success = FALSE
       /\ resp.token = None /\ resp.data = None
       /\ IF e.name = "ApiError"
          THEN /\ resp.status = e.statusCode
               /\ resp.message = e.message
               /\ resp.code = e.code
               /\ resp.details = <<>>
          ELSE IF e.name = "ValidationError"
          THEN /\ resp.status = 400
               /\ resp.code = "VALIDATION_ERROR"
               /\ Len(resp.details) = Len(e.errors)
               /\ \A i \in 1..Len(e.errors) :
                     /\ resp.details[i].field = e.errors[i].path
                     /\ resp.details[i].message = e.errors[i].message
          ELSE /\ resp.status = 500
               /\ resp.code = "INTERNAL_ERROR"
               /\ resp.details = <<>>
               /\ resp.message =
                     IF env = "production" THEN "An unexpected error occurred"
                     ELSE IF e.message = "" THEN rawless
                     ELSE e.message

\* C11 as stated: the errorHandler answers every error it receives with one
\* response: an ApiError with its own status, message and code; a
\* ValidationError with 400 VALIDATION_ERROR and the {field, message} details;
\* anything else with 500 INTERNAL_ERROR and the generic message in
\* production, the raw message otherwise.
C11_Original ==
    \A r \in Slots :
        (Answered(reqs[r]) /\ reqs[r].err /= None) =>
            /\ Resp(reqs[r]).by = "errorHandler"
            /\ Classified(reqs[r], nodeEnv, "")

\* C11 (amended): as stated, except that outside production an error whose
\* raw message is empty is answered with the message "Internal Server Error".
C11_Classification ==
    \A r \in Slots :
        /\ (Answered(reqs[r]) /\ reqs[r].err /= None) =>
              /\ Resp(reqs[r]).by = "errorHandler"
              /\ Classified(reqs[r], nodeEnv, "Internal Server Error")
        /\ reqs[r].pc = "error" => reqs[r].resp = None

C11_Witness ==
    \E r \in Slots :
        /\ Answered(reqs[r])
        /\ reqs[r].err = Some(StoreValidationError)
        /\ Resp(reqs[r]).status = 400
        /\ Len(Resp(reqs[r]).details) = 2

\* C12 as stated: when a request has been answered with an error response,
\* an error log entry carrying its route, its method, the stack and the
\* status code that was sent has been written.
C12_Original ==
    \A r \in Slots :
        (Answered(reqs[r]) /\ Resp(reqs[r]).status >= 400) =>
            /\ reqs[r].log /= None
            /\ Get(reqs[r].log).url = reqs[r].url
            /\ Get(reqs[r].log).method = reqs[r].method
            /\ Get(reqs[r].log).stack /= ""
            /\ Get(reqs[r].log).statusCode = Resp(reqs[r]).status

\* C13: every error response, whichever component wrote it, has success
\* false and carries a message and a code (details are optional) and nothing
\* of a success body; every other response has success true.
C13_Envelope ==
    \A r \in Slots :
        Answered(reqs[r]) =>
            IF Resp(reqs[r]).status >= 400
            THEN /\ Resp(reqs[r]).success = FALSE
                 /\ Resp(reqs[r]).message /= ""
                 /\ Resp(reqs[r]).code /= ""
                 /\ Resp(reqs[r]).token = None
                 /\ Resp(reqs[r]).data = None
            ELSE Resp(reqs[r]).success = TRUE

C13_Witness ==
    \E r \in Slots :
        /\ Answered(reqs[r])
        /\ reqs[r].err = Some(NoMessageError)
        /\ nodeEnv = "development"
        /\ Resp(reqs[r]).status = 500
        /\ Resp(reqs[r]).code = "INTERNAL_ERROR"

\* C14 as stated: once a registration through the client's register() has
\* succeeded, the client holds a token, in state.token and under auth_token
\* in localStorage, that authenticateJWT accepts as the credential of the
\* new user.
C14_Original ==
    client.resolved = "register" =>
        /\ IsSome(client.state.token)
        /\ client.storage = client.state.token
        /\ Get(client.state.token).kind = "jwt"
        /\ LET tok == Get(client.state.token)
               v == JwtVerify(<<tok>>, JwtSecret, tok.iat)
           IN /\ v.ok
              /\ \E u \in users :
                    /\ u.id = Get(v.decoded).id
                    /\ u.username = Get(v.decoded).username
                    /\ u.username = Get(client.state.user).username

\* C15: a correctly signed token passes authenticateJWT before its expiry
\* whatever the User collection holds by then, the identity attached being
\* the token's own claims; GET /api/auth/me with a token whose user id
\* resolves to no user is rejected 404 USER_NOT_FOUND, and the errorHandler
\* answers so.
C15_Step ==
    \A r \in Slots :
        /\ (/\ Steps(r, "auth")
            /\ reqs[r].hdr /= None
            /\ Len(Get(reqs[r].hdr)) = 3
            /\ Get(reqs[r].hdr)[1] = Bearer
            /\ Get(reqs[r].hdr)[2] = SP
            /\ Get(reqs[r].hdr)[3].kind = "jwt"
            /\ Get(reqs[r].hdr)[3].key = JwtSecret
            /\ now < Get(reqs[r].hdr)[3].exp) =>
               /\ reqs'[r].pc = "handler"
               /\ reqs'[r].err = None
               /\ reqs'[r].user = Some(Claims(Get(reqs[r].hdr)[3]))
        /\ (/\ Steps(r, "handler")
            /\ reqs[r].route = "me"
            /\ \A u \in users : u.id /= Get(reqs[r].user).id) =>
               /\ reqs'[r].pc = "error"
               /\ Rejected(reqs'[r], 404, "USER_NOT_FOUND")
        /\ (/\ Steps(r, "error")
            /\ reqs[r].route = "me"
            /\ reqs[r].ran) =>
               /\ Answered(reqs'[r])
               /\ Rejected(reqs'[r], 404, "USER_NOT_FOUND")

\* C15: tokens outlive their user record, and /me answers 404
\* USER_NOT_FOUND for them, on every step.
C15_NeverRevoked == [][C15_Step]_vars

C15_Witness ==
    \E r \in Slots :
        /\ reqs[r].route = "me"
        /\ Answered(reqs[r])
        /\ Resp(reqs[r]).status = 404
        /\ Resp(reqs[r]).code = "USER_NOT_FOUND"
        /\ Get(reqs[r].hdr)[3] \in tokens
        /\ reqs[r].user = Some(Claims(Get(reqs[r].hdr)[3]))
        /\ users = {}

\* Slot r serves a request of a route that takes an item id, and the id
\* names a stored item or not.
ById(r) == reqs[r].route \in {"getItem", "updateItem", "deleteItem"}
Named(r) == {i \in items : i.id = reqs[r].url.path[1].id}

\* C18: a GET or DELETE by id with a well-formed id passes validation; when
\* the id of a GET, PUT or DELETE by id matches no stored item the handler
\* forwards 404 ITEM_NOT_FOUND and the errorHandler answers 404
\* ITEM_NOT_FOUND, never 500, and the store is left as it was.
C18_Step ==
    \A r \in Slots :
        /\ (/\ Steps(r, "check")
            /\ reqs[r].route \in {"getItem", "deleteItem"}
            /\ IsMongoId(reqs[r].url.path[1])) =>
               reqs'[r].pc = "handler"
        /\ (Steps(r, "handler") /\ ById(r) /\ Named(r) = {}) =>
               /\ reqs'[r].pc = "error"
               /\ Rejected(reqs'[r], 404, "ITEM_NOT_FOUND")
               /\ items' = items
        /\ (Steps(r, "error") /\ ById(r)) =>
               /\ Answered(reqs'[r])
               /\ Resp(reqs'[r]).status = 404
               /\ Resp(reqs'[r]).code = "ITEM_NOT_FOUND"
               /\ Resp(reqs'[r]).success = FALSE
               /\ items' = items

\* C18: an id that matches no item gets 404 ITEM_NOT_FOUND and changes
\* nothing, on every step.
C18_AbsentItem == [][C18_Step]_vars

C18_Witness ==
    \E r \in Slots :
        /\ reqs[r].route = "deleteItem"
        /\ Answered(reqs[r])
        /\ Resp(reqs[r]).status = 404
        /\ Resp(reqs[r]).code = "ITEM_NOT_FOUND"
        /\ items /= {}

\* The round trip of create and read, step by step: an accepted create
\* stores and returns an item with a fresh id, the timestamps of the clock
\* and the title and content given by kept (of the title and content
\* submitted); no step but the update or delete of an item changes or removes
\* it; a get-by-id of a stored id returns the stored item.
RoundTrip(kept(_)) ==
    \A r \in Slots :
        /\ (/\ Steps(r, "handler")
            /\ reqs[r].route = "createItem"
            /\ Answered(reqs'[r])) =>
               LET item == Get(Resp(reqs'[r]).data) IN
               /\ Resp(reqs'[r]).status = 201
               /\ item.title = kept(reqs[r].sent.title)
               /\ item.content = kept(reqs[r].sent.content)
               /\ item.createdAt = now /\ item.updatedAt = now
               /\ \A i \in items : i.id /= item.id
               /\ items' = items \cup {item}
        /\ \A i \in items :
               \/ i \in items'
               \/ /\ Steps(r, "handler")
                  /\ reqs[r].route \in {"updateItem", "deleteItem"}
                  /\ reqs[r].url.path[1].id = i.id
               \/ \E q \in Slots \ {r} : reqs'[q] /= reqs[q]
        /\ (Steps(r, "handler") /\ reqs[r].route = "getItem"
                /\ Named(r) /= {}) =>
               /\ Answered(reqs'[r])
               /\ Resp(reqs'[r]).status = 200
               /\ Get(Resp(reqs'[r]).data) \in items
               /\ Get(Resp(reqs'[r]).data).id = reqs[r].url.path[1].id

Same(t) == t

\* C19 as stated: an accepted create with title T and content C stores and
\* returns an item with exactly T and C, an id and timestamps, and a
\* get-by-id of that id returns that item while no update or delete of it
\* has run.
C19_Original == [][RoundTrip(Same)]_vars

\* C19 (amended): as stated, with the title and content returned being the
\* submitted T and C without their leading and trailing whitespace.
C19_RoundTrip == [][RoundTrip(Trim)]_vars

C19_Witness ==
    \E r \in Slots :
        /\ reqs[r].route = "getItem"
        /\ Answered(reqs[r])
        /\ Resp(reqs[r]).status = 200
        /\ Get(Resp(reqs[r]).data) \in items
        /\ Get(Resp(reqs[r]).data).title = Trim(TitleFullPadded)
        /\ Get(Resp(reqs[r]).data).updatedAt = Get(Resp(reqs[r]).data).createdAt
        /\ now > Get(Resp(reqs[r]).data).createdAt

\* Slot r holds a GET request to /api/items/search.
IsSearch(r) ==
    /\ reqs[r].method = "GET"
    /\ reqs[r].url = Url("/api/items", <<Search>>)

\* C16 as stated: a GET request to /api/items/search is handled by the search
\* route, not by the item-by-id route, and is answered 200 with results and a
\* pagination object carrying total, pages, hasNextPage and hasPrevPage.
C16_Original ==
    \A r \in Slots :
        IsSearch(r) =>
            /\ reqs[r].route = "search"
            /\ Answered(reqs[r]) =>
                  /\ Resp(reqs[r]).status = 200
                  /\ Resp(reqs[r]).data /= None
                  /\ {"results", "pagination"}
                        \subseteq DOMAIN Get(Resp(reqs[r]).data)
                  /\ {"total", "pages", "hasNextPage", "hasPrevPage"}
                        \subseteq DOMAIN Get(Resp(reqs[r]).data).pagination

\* What a search with page p and limit L over n matching items is to return:
\* positions (p-1)*L+1 .. min(p*L, n) of a newest-first ordering, hasPrevPage
\* = (p > 1) and hasNextPage = (n > p*L).
Sliced(resp, matching, p, L) ==
    LET n == Cardinality(matching)
        first == (p - 1) * L + 1
        last == IF p * L < n THEN p * L ELSE n
        out == Get(resp.data)
    IN /\ resp.status = 200
       /\ resp.data /= None
       /\ \E o \in NewestFirst(matching) :
             /\ Len(out.results) = (IF last >= first THEN last - first + 1 ELSE 0)
             /\ \A k \in 1..Len(out.results) :
                   out.results[k] = o[first + k - 1]
       /\ out.pagination.total = n
       /\ out.pagination.hasPrevPage = (p > 1)
       /\ out.pagination.hasNextPage = (n > p * L)

\* C17 as stated: a search with page p >= 1 and limit L in 1..50 over a store
\* of N matching items is answered with the items at positions (p-1)*L+1 ..
\* min(p*L, N) of the newest-first ordering, hasPrevPage = (p > 1) and
\* hasNextPage = (N > p*L).
C17_Original ==
    \A r \in Slots :
        (IsSearch(r) /\ Answered(reqs[r])) =>
            Sliced(Resp(reqs[r]), Matching(items, reqs[r].query.q),
                   IF reqs[r].query.page = None THEN 1
                   ELSE Get(reqs[r].query.page).n,
                   IF reqs[r].query.limit = None THEN 10
                   ELSE Get(reqs[r].query.limit).n)

\* The search handler, where a request is handed to it, returns the slice
\* above for the page and limit of the query, 1 and 10 when absent.
SearchHandlerSlices ==
    \A r \in Slots :
        (Answered(reqs[r]) /\ reqs[r].route = "search" /\ reqs[r].ran) =>
            Sliced(Resp(reqs[r]), Matching(items, reqs[r].query.q),
                   IF reqs[r].query.page = None THEN 1
                   ELSE Get(reqs[r].query.page).n,
                   IF reqs[r].query.limit = None THEN DefaultLimit
                   ELSE Get(reqs[r].query.limit).n)

SearchHandlerReached ==
    \E r \in Slots :
        /\ Answered(reqs[r]) /\ reqs[r].route = "search" /\ reqs[r].ran
        /\ Len(Get(Resp(reqs[r]).data).results) = 1
        /\ Get(Resp(reqs[r]).data).pagination.hasNextPage
        /\ Get(Resp(reqs[r]).data).pagination.hasPrevPage

\* C20 as stated: unless a signing secret has been configured the server
\* never serves requests and no token is ever signed, and no request fails
\* for want of a key.
C20_Original ==
    ~Truthy(jwtSecretEnv) =>
        /\ phase /= "listening"
        /\ tokens = {}
        /\ \A r \in Slots :
              /\ reqs[r].pc = "idle"
              /\ reqs[r].resp = None

\* C21 as stated: in every environment other than development, the 500
\* response to an unexpected (non-API) error carries the generic message,
\* never the raw message of the error.
C21_Original ==
    \A r \in Slots :
        ( /\ Answered(reqs[r])
          /\ Resp(reqs[r]).by = "errorHandler"
          /\ Resp(reqs[r]).code = "INTERNAL_ERROR"
          /\ nodeEnv /= "development" ) =>
            /\ Resp(reqs[r]).status = 500
            /\ Resp(reqs[r]).message = "An unexpected error occurred"

\* The action dispatched last is of this type.
Last(c, type) == c.last /= None /\ Get(c.last).type = type

\* C22: whatever the auth state was, the state after AUTH_SUCCESS with
\* payload {user, token} has isLoading false, isAuthenticated true, user and
\* token equal to the payload, and error null.
C22_AuthSuccess ==
    Last(client, "AUTH_SUCCESS") =>
        /\ client.state.isLoading = FALSE
        /\ client.state.isAuthenticated = TRUE
        /\ client.state.user = Get(client.last).payload.user
        /\ client.state.token = Get(client.last).payload.token
        /\ client.state.error = None

C22_Witness ==
    /\ Last(client, "AUTH_SUCCESS")
    /\ client.state.user = Some(UserAmy)
    /\ client.state.token = Some(TokenOf(UserAmy, 1))
    /\ client.state.isAuthenticated

\* C23: whatever the auth state and localStorage were, logout() leaves no
\* auth_token in localStorage and a state with isAuthenticated false, user
\* null and token null, isLoading and error being what they were.
C23_Step ==
    Last(client', "LOGOUT") =>
        /\ client'.storage = None
        /\ client'.state.isAuthenticated = FALSE
        /\ client'.state.user = None
        /\ client'.state.token = None
        /\ client'.state.isLoading = client.state.isLoading
        /\ client'.state.error = client.state.error

C23_Logout == [][C23_Step]_vars

C23_Witness ==
    /\ Last(client, "LOGOUT")
    /\ client.storage = None
    /\ client.state.isLoading
    /\ client.state.error = Some("Login failed")
    /\ ~client.state.isAuthenticated

\* C24 as stated: when POST /api/items has created an item for a request
\* that carried a valid bearer token, the stored item's user field is the
\* token's user id; for an anonymous request the stored item has no user.
C24_Original ==
    \A r \in Slots :
        ( /\ Answered(reqs[r])
          /\ reqs[r].route = "createItem"
          /\ Resp(reqs[r]).status = 201 ) =>
            LET item == Get(Resp(reqs[r]).data) IN
            /\ item \in items
            /\ IF reqs[r].hdr = None
               THEN item.user = None
               ELSE LET v == JwtVerify(<<Get(reqs[r].hdr)[3]>>, JwtSecret, now)
                    IN v.ok => item.user = Some(Get(v.decoded).id)

\* C25 as stated: when the page's fetch resolves on a successful GET
\* /api/items response, what DataService.getItems returned, which the page
\* then shows, is the items array of that response, in the same order.
C25_Step ==
    \A r \in Slots :
        ( /\ Awaits(r, "fetch")
          /\ reqs[r].pc = "done"
          /\ Resp(reqs[r]).status = 200
          /\ ~Awaits(r, "fetch")' ) =>
            client'.page.items = Get(Resp(reqs[r]).data)

C25_Original == [][C25_Step]_vars

\* C26 as stated: with no login under way, on the protected paths /items
\* and /profile App renders the path's page exactly when auth_token is in
\* localStorage, and the Login page exactly when it is not.
C26_Original ==
    (client.call = None /\ client.app.currentPath \in ProtectedPaths) =>
        IF client.storage /= None
        THEN RenderCurrentPage(client.app) = PageAt(client.app.currentPath)
        ELSE RenderCurrentPage(client.app) = "Login"

\* The stages of validateRequest, authenticateJWT, authorize and the route
\* handlers.
TerminalStages == {"check", "auth", "authz", "handler"}

\* C27: a step of validateRequest, authenticateJWT, authorize or a route
\* handler on a request takes exactly one terminal action: it sends one
\* response, or it calls next once, with an error or without, and the
\* request goes where that action sends it.
C27_Step ==
    \A r \in Slots :
        ( /\ reqs[r].pc \in TerminalStages
          /\ reqs'[r] /= reqs[r]
          /\ reqs'[r].pc /= "idle" ) =>
            /\ Len(reqs'[r].acts) = Len(reqs[r].acts) + 1
            /\ SubSeq(reqs'[r].acts, 1, Len(reqs[r].acts)) = reqs[r].acts
            /\ LET a == reqs'[r].acts[Len(reqs'[r].acts)] IN
               /\ a.stage = reqs[r].pc
               /\ \/ /\ a.act = "send"
                     /\ reqs'[r].pc = "done"
                     /\ reqs'[r].resp /= None
                     /\ reqs'[r].err = None
                  \/ /\ a.act = "next"
                     /\ reqs'[r].pc = "handler"
                     /\ reqs[r].pc /= "handler"
                     /\ reqs'[r].resp = None
                     /\ reqs'[r].err = None
                  \/ /\ a.act = "error"
                     /\ reqs'[r].pc = "error"
                     /\ reqs'[r].resp = None
                     /\ reqs'[r].err /= None

C27_OneTerminalAction == [][C27_Step]_vars

C27_Witness ==
    \E r \in Slots :
        /\ reqs[r].route = "updateItem"
        /\ reqs[r].pc = "done"
        /\ Len(reqs[r].acts) = 2
        /\ reqs[r].acts[1] = [stage |-> "check", act |-> "next"]
        /\ reqs[r].acts[2] = [stage |-> "handler", act |-> "send"]

\* C28 as stated: in every auth state the client reaches by login, register,
\* logout and clearError calls, isAuthenticated is true exactly when
\* state.token is not null.
C28_Original ==
    client.state.isAuthenticated <=> (client.state.token /= None)

====
